---- MODULE Spec2Model ----
(***************************************************************************)
(* Gradr background job queue: the SQLite job store (db.js), the folder    *)
(* serial allocator and the worker loop (worker.js).                       *)
(*                                                                         *)
(* The store is one SQLite database shared by several processes.  A        *)
(* db.transaction(...) whose first statement is a write takes the single   *)
(* database write lock at that statement and holds it until COMMIT; its    *)
(* changes live in a private working copy until then and are discarded     *)
(* when the process dies.  A single statement outside a transaction is an  *)
(* auto-commit write and needs the same lock.                              *)
(*                                                                         *)
(* Time is epoch seconds, as strftime('%s','now') and Date.now()/1000      *)
(* give it.  The tunables are the values of the environment overrides the  *)
(* source reads (WORKER_STALE_SECS, WORKER_BACKOFF_BASE, ...), chosen      *)
(* small so that staleness and backoff elapse within MaxTime seconds.      *)
(***************************************************************************)
EXTENDS Integers, Sequences, FiniteSets, TLC

\* ---------------------------------------------------------------- bounds
MaxTime   == 3      \* the clock runs from 0 to MaxTime
MaxJobs   == 1      \* rows ever inserted into jobs (Spec)
MaxOrderJobs == 2   \* rows ever inserted into jobs (SpecOrder)
MaxSerial == 3      \* nextSerial calls started per folder
MaxRetryTime == 4   \* the clock runs from 0 to MaxRetryTime (SpecRetry)
MaxRecoverJobs == 1 \* rows ever inserted into jobs (SpecRecover)
MaxPurgeJobs == 2   \* rows ever inserted into jobs (SpecPurge)
MaxBackoffAttempts == 5  \* attempts arguments of backoffSeconds (SpecBackoff)
MaxKindJobs == 2    \* rows ever inserted into jobs (SpecKinds)
MaxUploadJobs == 3  \* files ever taken in by upload requests (SpecUpload)
MaxColumnRows == 1  \* rows in the jobs table at a time (SpecColumns)
MaxColumnJobs == 2  \* rows ever inserted into jobs (SpecColumns)
MaxReportJobs == 2  \* rows ever inserted into jobs (SpecReportError)
MaxReclaimJobs == 2 \* rows ever inserted into jobs (SpecReclaim)
MaxReadJobs == 2    \* rows ever inserted into jobs (SpecReads)
MaxErrorJobs == 2   \* rows ever inserted into jobs (SpecStoreError)
MaxLoopJobs == 2    \* rows ever inserted into jobs (SpecLoop)

Workers    == {"w1", "w2"}     \* worker processes on the same store
Clients    == {"c1", "c2"}     \* processes calling nextSerial
Purger     == "purger"         \* the process calling purgeOldJobs
Procs      == Workers \cup Clients \cup {Purger}
Folders    == {"X", "Y"}
Folder     == "X"              \* the folder of the uploads where one is enough
\* the enqueueJob calls of SpecColumns: folder, base name, priority
Uploads    == {[folder |-> "Y", base |-> 2, priority |-> 5]}
Statuses   == {"queued", "processing", "done", "failed"}
BatchSizes == {1, 2}           \* files of one upload request
Offsets    == {0, 1}           \* offset arguments of listJobsByFolder
\* limit arguments of listJobsByFolder; a negative LIMIT is no limit
PageLimits == {-1, 1}
Priorities == {0, 5}           \* priority arguments of enqueueJob
Delays     == {0, 1}           \* delaySeconds arguments of enqueueJob
AnyDelays  == {-1, 0, 1}       \* delaySeconds of any sign (SpecAnyDelay)
Limits     == {1, 2}           \* WORKER_CONCURRENCY values
RandomDraws == {0, 500, 999}   \* Math.random() in thousandths, in [0, 1)
\* Math.random() draws of the backoff calls of SpecBackoff, in thousandths
BackoffDraws == {0, 1, 125, 250, 375, 499, 500, 501, 625, 750, 875, 998, 999}
Errors     == {"Image missing on disk"}   \* e.message in workOne's catch
\* e.message of the two kinds of failure: the existsSync precondition and a
\* throwing transcribeImageWithGPT call (SpecKinds)
\* e.message of a store call that throws (SQLITE_BUSY after the busy timeout)
StoreErrors == {"database is locked"}
FailureKinds == {"Image missing on disk", "transcription failed"}
\* days arguments of purgeOldJobs, as fractions <<numerator, denominator>>:
\* 0, 1/86400 (one second) and the default 7
PurgeDays  == {<<0, 1>>, <<1, 86400>>, <<7, 1>>}

\* ------------------------------------------------------------- tunables
MAX_ATTEMPTS   == 3     \* WORKER_MAX_ATTEMPTS
BACKOFF_BASE   == 1     \* WORKER_BACKOFF_BASE, seconds
BACKOFF_FACTOR == 2     \* WORKER_BACKOFF_FACTOR
BACKOFF_JITTER == 200   \* WORKER_BACKOFF_JITTER in thousandths (0.2)
STALE_SECS     == 2     \* WORKER_STALE_SECS
ERR_MAX        == 2000  \* String(err).slice(0, 2000)
SERIAL_PAD     == 3     \* width of the serial in a base name

StaleNote == "[auto] requeued stale processing job"

VARIABLES
  now,        \* the wall clock, epoch seconds
  jobs,       \* committed jobs table: id -> row
  autoinc,    \* AUTOINCREMENT high-water mark of jobs.id
  folders,    \* committed folders table: folder -> last_serial
  tx,         \* per process: the open write transaction's working copy
  limit,      \* CONCURRENCY of the worker processes
  running,    \* per worker: the re-entrancy flag of loop()
  pc,         \* per worker: position inside loop() / claimJobs()
  rows,       \* per worker: claimStmt rows not yet marked
  claimed,    \* per worker: rows marked so far by this claimJobs call
  inflight,   \* per worker: workOne(job) calls not yet settled
  cpc,        \* per client: position inside nextSerial()
  cfolder,    \* per client: the folder argument of the running nextSerial
  issued,     \* history: per folder, the values nextSerial returned, in order
  phase,      \* per worker: "up", "stopping" (signal received) or "exited"
  skipped,    \* per worker: a timer firing found running = true in this tick
  looperr,    \* per worker: loop()'s catch logged "loop error" in this tick
  ppc,        \* position inside purgeOldJobs(): "idle" or "deleting"
  page,       \* purgeOldJobs: const age of the running or last call
  pdone,      \* purgeOldJobs: const d, the changes of purgeDoneStmt
  presult,    \* the value the last purgeOldJobs call returned
  battempts,  \* backoffSeconds: the attempts argument of the last call
  bdraw,      \* backoffSeconds: its Math.random() draw, in thousandths
  bseconds,   \* backoffSeconds: the value it returned
  reply,      \* the value the last read-only query returned
  upload      \* per client: the upload request it is handling, if any

vars == <<now, jobs, autoinc, folders, tx, limit, running, pc, rows, claimed,
          inflight, cpc, cfolder, issued, phase, skipped, looperr, ppc, page, pdone,
          presult, battempts, bdraw, bseconds, reply, upload>>

workerVars == <<limit, running, pc, rows, claimed, inflight>>
clientVars == <<cpc, cfolder, issued>>
loopVars   == <<phase, skipped, looperr>>
purgeVars  == <<ppc, page, pdone, presult>>
callVars   == <<battempts, bdraw, bseconds, reply>>

\* ------------------------------------------------------------- helpers
NoTx == [open |-> FALSE]

Min(a, b) == IF a < b THEN a ELSE b
Max(a, b) == IF a > b THEN a ELSE b

RECURSIVE Pow(_, _)
Pow(b, e) == IF e = 0 THEN 1 ELSE b * Pow(b, e - 1)

\* SQL text values: NULL or a string
Null == [null |-> TRUE, text |-> ""]
Text(s) == [null |-> FALSE, text |-> s]

\* COALESCE(last_error, '')
Coalesce(v) == IF v.null THEN "" ELSE v.text

\* ------------------------------------------------------- backoff policy
\* a backoff without the floor of one second
backoffSecondsNoFloor(attempts, r) ==
  LET raw    == BACKOFF_BASE * Pow(BACKOFF_FACTOR, attempts)
      jitter == 1000000 + (2 * r - 1000) * BACKOFF_JITTER
  IN  (raw * jitter) \div 1000000

\* worker.js backoffSeconds; r is the Math.random() draw in thousandths.
\* jitter = 1 + (r*2 - 1) * BACKOFF_JITTER, kept in millionths.
backoffSeconds(attempts, r) ==
  LET raw    == BACKOFF_BASE * Pow(BACKOFF_FACTOR, attempts)
      jitter == 1000000 + (2 * r - 1000) * BACKOFF_JITTER
  IN  Max(1, (raw * jitter) \div 1000000)

\* ------------------------------------------------------------ job store
\* insertJob: one new row, status queued, attempts 0, defaults for the rest.
\* h_recovered and h_epoch are history fields, not columns: whether the row
\* was ever stale-requeued, and how many times an UPDATE has set its status
\* to queued.
NewJob(folder, priority, available_at, t) ==
  [folder       |-> folder,
   status       |-> "queued",
   attempts     |-> 0,
   last_error   |-> Null,
   priority     |-> priority,
   available_at |-> available_at,
   updated_at   |-> t,
   h_recovered  |-> FALSE,
   h_epoch      |-> 0]

\* insertJob with every column of the jobs table: NewJob keeps the columns
\* the queue's statements read or write; FullJob adds image_path, text_path
\* (modelled by the base name the two share) and created_at.
FullJob(folder, base, priority, available_at, t) ==
  [folder       |-> folder,
   image_path   |-> <<base, "img">>,
   text_path    |-> <<base, "txt">>,
   created_at   |-> t,
   status       |-> "queued",
   attempts     |-> 0,
   last_error   |-> Null,
   priority     |-> priority,
   available_at |-> available_at,
   updated_at   |-> t,
   h_recovered  |-> FALSE,
   h_epoch      |-> 0]

\* id INTEGER PRIMARY KEY without AUTOINCREMENT: the largest rowid in the
\* table plus one
nextIdRowid(J, seq) ==
  IF DOMAIN J = {} THEN 1
  ELSE (CHOOSE a \in DOMAIN J : \A b \in DOMAIN J : b <= a) + 1

\* id INTEGER PRIMARY KEY AUTOINCREMENT: one more than the largest id ever
\* used (sqlite_sequence)
nextId(J, seq) == seq + 1

\* an INSERT that takes available_at from the clock alone
enqueueJobNoDelay(J, id, folder, priority, delaySeconds, t) ==
  [i \in DOMAIN J \cup {id} |->
     IF i = id THEN NewJob(folder, priority, t, t) ELSE J[i]]

enqueueJob(J, id, folder, priority, delaySeconds, t) ==
  [i \in DOMAIN J \cup {id} |->
     IF i = id THEN NewJob(folder, priority, t + delaySeconds, t) ELSE J[i]]

\* a recovery statement that requeues every processing row, whatever its age
IsStaleAnyAge(j, t, stale) == j.status = "processing"

\* a recovery statement whose WHERE clause matches no row
IsStaleNever(j, t, stale) == FALSE

\* requeueStaleStmt's WHERE clause
IsStale(j, t, stale) == j.status = "processing" /\ j.updated_at <= t - stale

\* requeueStaleStmt making the requeued job wait one more second
RequeueRowDelayed(j, t) ==
  [j EXCEPT !.status       = "queued",
            !.available_at = t + 1,
            !.updated_at   = t,
            !.last_error   =
               Text(Coalesce(j.last_error)
                    \o (IF j.last_error.null \/ j.last_error.text = ""
                        THEN "" ELSE "\n")
                    \o StaleNote),
            !.h_recovered  = TRUE,
            !.h_epoch      = @ + 1]

\* requeueStaleStmt overwriting last_error instead of appending to it
RequeueRowOverwrite(j, t) ==
  [j EXCEPT !.status       = "queued",
            !.available_at = t,
            !.updated_at   = t,
            !.last_error   = Text(StaleNote),
            !.h_recovered  = TRUE,
            !.h_epoch      = @ + 1]

\* requeueStaleStmt's SET clause
RequeueRow(j, t) ==
  [j EXCEPT !.status       = "queued",
            !.available_at = t,
            !.updated_at   = t,
            !.last_error   =
               Text(Coalesce(j.last_error)
                    \o (IF j.last_error.null \/ j.last_error.text = ""
                        THEN "" ELSE "\n")
                    \o StaleNote),
            !.h_recovered  = TRUE,
            !.h_epoch      = @ + 1]

\* a recovery that counts the interrupted run as an attempt
requeueStaleJobsCounting(J, t, staleSeconds) ==
  [i \in DOMAIN J |->
     IF IsStale(J[i], t, staleSeconds)
     THEN [RequeueRow(J[i], t) EXCEPT !.attempts = @ + 1] ELSE J[i]]

requeueStaleJobs(J, t, staleSeconds) ==
  [i \in DOMAIN J |->
     IF IsStale(J[i], t, staleSeconds) THEN RequeueRow(J[i], t) ELSE J[i]]

\* a WHERE clause with available_at < now: a job is not a candidate in the
\* second it becomes available
EligibleStrictlyPast(j, t) == j.status = "queued" /\ j.available_at < t

\* claimStmt's WHERE clause
Eligible(j, t) == j.status = "queued" /\ j.available_at <= t

\* claimStmt ordering by priority ASC instead of DESC
BeforeAscending(J, a, b) ==
  \/ J[a].priority < J[b].priority
  \/ /\ J[a].priority = J[b].priority
     /\ \/ J[a].available_at < J[b].available_at
        \/ /\ J[a].available_at = J[b].available_at
           /\ a < b

\* claimStmt's ORDER BY priority DESC, available_at ASC, id ASC
Before(J, a, b) ==
  \/ J[a].priority > J[b].priority
  \/ /\ J[a].priority = J[b].priority
     /\ \/ J[a].available_at < J[b].available_at
        \/ /\ J[a].available_at = J[b].available_at
           /\ a < b

RECURSIVE OrderIds(_, _)
OrderIds(J, S) ==
  IF S = {} THEN <<>>
  ELSE LET first == CHOOSE a \in S : \A b \in S \ {a} : Before(J, a, b)
       IN  <<first>> \o OrderIds(J, S \ {first})

\* claimStmt without its LIMIT
claimStmtNoLimit(J, t, lim) ==
  LET ids == OrderIds(J, {i \in DOMAIN J : Eligible(J[i], t)})
  IN  [k \in 1..Len(ids) |->
         [id |-> ids[k], attempts |-> J[ids[k]].attempts,
          h_epoch |-> J[ids[k]].h_epoch]]

\* claimStmt: SELECT id, ..., attempts ... LIMIT @limit
claimStmt(J, t, lim) ==
  LET ids == OrderIds(J, {i \in DOMAIN J : Eligible(J[i], t)})
  IN  [k \in 1..Min(lim, Len(ids)) |->
         [id |-> ids[k], attempts |-> J[ids[k]].attempts,
          h_epoch |-> J[ids[k]].h_epoch]]

\* markProcessing: UPDATE ... WHERE id=@id AND status='queued'
MarkProcessingHits(J, id) == id \in DOMAIN J /\ J[id].status = "queued"

\* a markProcessing that sets the status and leaves updated_at
markProcessingNoTouch(J, id, t) ==
  IF MarkProcessingHits(J, id)
  THEN [J EXCEPT ![id].status = "processing"]
  ELSE J

markProcessing(J, id, t) ==
  IF MarkProcessingHits(J, id)
  THEN [J EXCEPT ![id].status     = "processing",
                 ![id].updated_at = t]
  ELSE J

\* markDone: UPDATE ... WHERE id=@id
markDone(J, id, t) ==
  IF id \in DOMAIN J
  THEN [J EXCEPT ![id].status     = "done",
                 ![id].updated_at = t,
                 ![id].last_error = Null]
  ELSE J

completeJob(J, id, t) == markDone(J, id, t)

\* markFail whose CASE has no ELSE branch for the retry: status becomes NULL
markFailNoElse(J, id, err, final, next_time, t) ==
  IF id \in DOMAIN J
  THEN [J EXCEPT ![id].status       = IF final = 1 THEN "failed" ELSE "NULL",
                 ![id].attempts     = @ + 1,
                 ![id].last_error   = Text(err),
                 ![id].available_at = next_time,
                 ![id].updated_at   = t,
                 ![id].h_epoch      = IF final = 1 THEN @ ELSE @ + 1]
  ELSE J

\* markFail: UPDATE ... WHERE id=@id
markFail(J, id, err, final, next_time, t) ==
  IF id \in DOMAIN J
  THEN [J EXCEPT ![id].status       = IF final = 1 THEN "failed" ELSE "queued",
                 ![id].attempts     = @ + 1,
                 ![id].last_error   = Text(err),
                 ![id].available_at = next_time,
                 ![id].updated_at   = t,
                 ![id].h_epoch      = IF final = 1 THEN @ ELSE @ + 1]
  ELSE J

\* String(err).slice(0, 2000)
Slice(err) == SubSeq(err, 1, Min(Len(err), ERR_MAX))

\* failJob with the final test off by one: attempts + 1 > maxAttempts
failJobOffByOne(J, id, attempts, err, maxAttempts, backoff, t) ==
  LET final     == IF attempts + 1 > maxAttempts THEN 1 ELSE 0
      next_time == IF final = 1 THEN t ELSE t + backoff
  IN  markFail(J, id, Slice(err), final, next_time, t)

failJob(J, id, attempts, err, maxAttempts, backoff, t) ==
  LET final     == IF attempts + 1 >= maxAttempts THEN 1 ELSE 0
      next_time == IF final = 1 THEN t ELSE t + backoff
  IN  markFail(J, id, Slice(err), final, next_time, t)

\* -------------------------------------------------------- serial helpers
\* upsertFolder: INSERT ... ON CONFLICT(folder) DO NOTHING
upsertFolder(F, f) ==
  IF f \in DOMAIN F THEN F ELSE [g \in DOMAIN F \cup {f} |-> IF g = f THEN 0 ELSE F[g]]

\* incSerial without the WHERE clause: every counter moves
incSerialEveryFolder(F, f) == [g \in DOMAIN F |-> F[g] + 1]

\* incSerial: UPDATE folders SET last_serial = last_serial + 1 WHERE folder = ?
incSerial(F, f) == IF f \in DOMAIN F THEN [F EXCEPT ![f] = @ + 1] ELSE F

\* getSerial: SELECT last_serial FROM folders WHERE folder = ?
getSerial(F, f) == F[f]

\* --------------------------------------------------- the database lock
\* A write statement can start only when no other process holds the write
\* lock, that is, has a write transaction open.
\* a store without the write lock: every write statement starts at once
WriteLockIgnored(T, p) == TRUE

WriteLockFree(T, p) == \A q \in Procs \ {p} : ~T[q].open

\* ------------------------------------------------------------- purge
\* const age = days * 24 * 60 * 60, for days = d[1] / d[2]
purgeAge(d) == (d[1] * 24 * 60 * 60) \div d[2]

\* a DELETE that forgets the status condition
PurgeMatchAnyStatus(j, status, t, age) == j.updated_at <= t - age

\* WHERE status = <status> AND updated_at <= (strftime('%s','now') - @age)
PurgeMatch(j, status, t, age) ==
  j.status = status /\ j.updated_at <= t - age

\* purgeDoneStmt / purgeFailedStmt: the table after the DELETE
purgeStmt(J, status, t, age) ==
  [i \in {k \in DOMAIN J : ~PurgeMatch(J[k], status, t, age)} |-> J[i]]

\* .run({ age }).changes
purgeChanges(J, status, t, age) ==
  Cardinality({k \in DOMAIN J : PurgeMatch(J[k], status, t, age)})

\* -------------------------------------------------------- worker loop
\* a loop that never looks at the running flag
TickAlways(r) == TRUE

\* loop(): if (running) return;
TickAllowed(r) == ~r

\* a shutdown that forgets clearInterval(timer)
TimerArmedAlways(ph) == TRUE

\* the interval timer fires until shutdown() has called clearInterval(timer)
TimerArmed(ph) == ph = "up"

\* a shutdown that exits without looking at the running flag
MayExitAlways(r) == TRUE

\* shutdown's wait(): if (!running) process.exit(0)
MayExit(r) == ~r

\* ------------------------------------------------------- read-only queries
\* getJobStmt.get(id): the row, or undefined
getJob(J, id) ==
  IF id \in DOMAIN J THEN [found |-> TRUE, id |-> id, row |-> J[id]]
  ELSE [found |-> FALSE]

RECURSIVE IdsDescending(_)
IdsDescending(S) ==
  IF S = {} THEN <<>>
  ELSE LET top == CHOOSE a \in S : \A b \in S : b <= a
       IN  <<top>> \o IdsDescending(S \ {top})

\* listJobsByFolderStmt: WHERE folder = ? ORDER BY id DESC LIMIT OFFSET
listJobsByFolder(J, folder, lim, offset) ==
  LET ids  == IdsDescending({i \in DOMAIN J : J[i].folder = folder})
      last == IF lim < 0 THEN Len(ids) ELSE Min(Len(ids), offset + lim)
      slice == SubSeq(ids, offset + 1, last)
  IN  [k \in 1..Len(slice) |-> [id |-> slice[k], row |-> J[slice[k]]]]

\* countsByFolderStmt: one (status, cnt) row per status present in the folder
jobCounts(J, folder) ==
  LET cnt(s) == Cardinality({i \in DOMAIN J :
                               J[i].folder = folder /\ J[i].status = s})
  IN  {[status |-> s, cnt |-> cnt(s)] : s \in {t \in Statuses : cnt(t) > 0}}

\* a query that deletes the rows it returns
afterSelectConsumes(J, ids) == [i \in DOMAIN J \ ids |-> J[i]]

\* the jobs table after a SELECT that returned the rows ids
afterSelect(J, ids) == J

\* a store that keeps the writes of a transaction its process died in
afterCrashTornWrite(J, T) == IF T.open THEN T.jobs ELSE J

\* the committed jobs table after a process died: an open transaction is
\* rolled back from the WAL, nothing else is written
afterCrash(J, T) == J

\* a transaction wrapper that commits what was written before the throw
afterThrowKeepsWrites(J, T) == IF T.open THEN T.jobs ELSE J

\* db.transaction(fn): when fn throws, the transaction is rolled back and the
\* error is rethrown; the committed table is what it was
afterThrow(J, T) == J

\* a catch block that gives a missing image no retry
CatchMaxAttemptsMissingIsFinal(err) ==
  IF err = "Image missing on disk" THEN 1 ELSE MAX_ATTEMPTS

\* workOne's catch block passes MAX_ATTEMPTS to failJob whatever was thrown
CatchMaxAttempts(err) == MAX_ATTEMPTS

\* Promise.all instead of allSettled: one rejection drops the whole batch
SettleAbort(S, job) == {}

\* Promise.allSettled: a settled workOne leaves the other promises pending
Settle(S, job) == S \ {job}

\* ------------------------------------------------------------------ Init
InitStore ==
  /\ now = 0
  /\ jobs = <<>>
  /\ autoinc = 0
  /\ folders = <<>>
  /\ tx = [p \in Procs |-> NoTx]

InitWorkers ==
  /\ limit \in Limits
  /\ running = [w \in Workers |-> FALSE]
  /\ pc = [w \in Workers |-> "idle"]
  /\ rows = [w \in Workers |-> <<>>]
  /\ claimed = [w \in Workers |-> <<>>]
  /\ inflight = [w \in Workers |-> {}]

InitClients ==
  /\ cpc = [c \in Clients |-> "idle"]
  /\ cfolder = [c \in Clients |-> "X"]
  /\ issued = [f \in Folders |-> <<>>]

\* setInterval(loop, POLL_MS) is armed, no signal has been received.
InitLoop ==
  /\ phase = [w \in Workers |-> "up"]
  /\ skipped = [w \in Workers |-> FALSE]
  /\ looperr = [w \in Workers |-> FALSE]

\* no purgeOldJobs call has been made
InitPurge ==
  /\ ppc = "idle"
  /\ page = 0
  /\ pdone = 0
  /\ presult = [deletedDone |-> 0, deletedFailed |-> 0]

\* no backoffSeconds call and no read-only query has returned yet; bseconds
\* holds what backoffSeconds(0) returns for the draw 0
InitCalls ==
  /\ battempts = 0
  /\ bdraw = 0
  /\ bseconds = 1
  /\ reply = [op |-> "none"]

\* no upload request is being handled
NoUpload == [at |-> "none", folder |-> "X", left |-> 0, serial |-> 0]

InitUploads == upload = [c \in Clients |-> NoUpload]

Init ==
  /\ InitStore /\ InitWorkers /\ InitClients /\ InitLoop /\ InitPurge /\ InitCalls
  /\ InitUploads

\* --------------------------------------------------------------- actions
\* The clock advances.
Tick ==
  /\ now < MaxTime
  /\ now' = now + 1
  /\ UNCHANGED <<jobs, autoinc, folders, tx, workerVars, clientVars, loopVars,
                 purgeVars, callVars, upload>>

\* enqueueJob(folder, image_path, text_path, priority, delaySeconds)
Enqueue(max, folder, priority, delaySeconds) ==
  /\ autoinc < max
  /\ WriteLockFree(tx, "ingest")
  /\ autoinc' = autoinc + 1
  /\ jobs' = enqueueJob(jobs, autoinc + 1, folder, priority, delaySeconds, now)
  /\ UNCHANGED <<now, folders, tx, workerVars, clientVars, loopVars, purgeVars, callVars, upload>>

\* setInterval fires loop() while no tick is running: running = true.
\* The timer fires between two callbacks of the process, never inside the
\* synchronous claimJobs call.
LoopStart(w) ==
  /\ TimerArmed(phase[w])
  /\ TickAllowed(running[w])
  /\ pc[w] \in {"idle", "work"}
  /\ running' = [running EXCEPT ![w] = TRUE]
  /\ pc' = [pc EXCEPT ![w] = "claim"]
  /\ skipped' = [skipped EXCEPT ![w] = FALSE]
  /\ looperr' = [looperr EXCEPT ![w] = FALSE]
  /\ UNCHANGED <<now, jobs, autoinc, folders, tx, limit, rows, claimed,
                 inflight, clientVars, phase, purgeVars, callVars, upload>>

\* setInterval fires loop() while a tick is running: if (running) return.
LoopSkip(w) ==
  /\ TimerArmed(phase[w])
  /\ ~TickAllowed(running[w])
  /\ pc[w] = "work"
  /\ skipped' = [skipped EXCEPT ![w] = TRUE]
  /\ UNCHANGED <<now, jobs, autoinc, folders, tx, workerVars, clientVars,
                 phase, looperr, purgeVars, callVars, upload>>

\* claimJobs, first statement of the transaction: requeueStaleJobs().
TxRequeueStale(w) ==
  /\ pc[w] = "claim"
  /\ WriteLockFree(tx, w)
  /\ tx' = [tx EXCEPT ![w] =
              [open    |-> TRUE,
               jobs    |-> requeueStaleJobs(jobs, now, STALE_SECS),
               folders |-> folders]]
  /\ pc' = [pc EXCEPT ![w] = "requeued"]
  /\ UNCHANGED <<now, jobs, autoinc, folders, limit, running, rows, claimed,
                 inflight, clientVars, loopVars, purgeVars, callVars, upload>>

\* claimJobs: rows = claimStmt.all({ limit })
TxSelect(w) ==
  /\ pc[w] = "requeued"
  /\ rows' = [rows EXCEPT ![w] = claimStmt(tx[w].jobs, now, limit)]
  /\ claimed' = [claimed EXCEPT ![w] = <<>>]
  /\ pc' = [pc EXCEPT ![w] = "selected"]
  /\ UNCHANGED <<now, jobs, autoinc, folders, tx, limit, running, inflight,
                 clientVars, loopVars, purgeVars, callVars, upload>>

\* claimJobs: one iteration of  for (const r of rows) markProcessing.run(...)
TxMark(w) ==
  /\ pc[w] = "selected"
  /\ rows[w] # <<>>
  /\ LET r == Head(rows[w])
     IN  /\ tx' = [tx EXCEPT ![w].jobs = markProcessing(tx[w].jobs, r.id, now)]
         /\ claimed' = [claimed EXCEPT ![w] =
                          IF MarkProcessingHits(tx[w].jobs, r.id)
                          THEN Append(@, r) ELSE @]
         /\ rows' = [rows EXCEPT ![w] = Tail(@)]
  /\ UNCHANGED <<now, jobs, autoinc, folders, limit, running, pc, inflight,
                 clientVars, loopVars, purgeVars, callVars, upload>>

\* claimJobs commits and returns claimed; loop() returns at once when it is
\* empty (finally: running = false), else dispatches workOne for each job.
TxCommit(w) ==
  /\ pc[w] = "selected"
  /\ rows[w] = <<>>
  /\ jobs' = tx[w].jobs
  /\ tx' = [tx EXCEPT ![w] = NoTx]
  /\ IF claimed[w] = <<>>
     THEN /\ pc' = [pc EXCEPT ![w] = IF inflight[w] = {} THEN "idle" ELSE "work"]
          /\ running' = [running EXCEPT ![w] = FALSE]
          /\ UNCHANGED inflight
     ELSE /\ pc' = [pc EXCEPT ![w] = "work"]
          /\ inflight' = [inflight EXCEPT ![w] =
                            @ \cup {claimed[w][k] : k \in 1..Len(claimed[w])}]
          /\ UNCHANGED running
  /\ claimed' = [claimed EXCEPT ![w] = <<>>]
  /\ UNCHANGED <<now, autoinc, folders, limit, rows, clientVars, loopVars,
                 purgeVars, callVars, upload>>

\* workOne(job): the transcription succeeded, completeJob(id).
WorkDone(w, job) ==
  /\ pc[w] = "work"
  /\ phase[w] # "exited"
  /\ job \in inflight[w]
  /\ WriteLockFree(tx, w)
  /\ jobs' = completeJob(jobs, job.id, now)
  /\ inflight' = [inflight EXCEPT ![w] = Settle(@, job)]
  /\ UNCHANGED <<now, autoinc, folders, tx, limit, running, pc, rows, claimed,
                 clientVars, loopVars, purgeVars, callVars, upload>>

\* workOne(job): the image is missing or the transcription threw; the catch
\* block calls failJob with the attempts of the claimed row.
WorkFail(w, job, err, r) ==
  /\ pc[w] = "work"
  /\ phase[w] # "exited"
  /\ job \in inflight[w]
  /\ WriteLockFree(tx, w)
  /\ jobs' = failJob(jobs, job.id, job.attempts, err, CatchMaxAttempts(err),
                     backoffSeconds(job.attempts, r), now)
  /\ inflight' = [inflight EXCEPT ![w] = Settle(@, job)]
  /\ UNCHANGED <<now, autoinc, folders, tx, limit, running, pc, rows, claimed,
                 clientVars, loopVars, purgeVars, callVars, upload>>

\* loop(): Promise.allSettled resolved; finally: running = false.
LoopEnd(w) ==
  /\ pc[w] = "work"
  /\ phase[w] # "exited"
  /\ inflight[w] = {}
  /\ pc' = [pc EXCEPT ![w] = "idle"]
  /\ running' = [running EXCEPT ![w] = FALSE]
  /\ UNCHANGED <<now, jobs, autoinc, folders, tx, limit, rows, claimed,
                 inflight, clientVars, loopVars, purgeVars, callVars, upload>>

\* The worker process dies and is started again: its memory is gone, its
\* open transaction is rolled back, the committed tables stay.
Crash(w) ==
  /\ pc[w] # "idle"
  /\ pc' = [pc EXCEPT ![w] = "idle"]
  /\ running' = [running EXCEPT ![w] = FALSE]
  /\ rows' = [rows EXCEPT ![w] = <<>>]
  /\ claimed' = [claimed EXCEPT ![w] = <<>>]
  /\ inflight' = [inflight EXCEPT ![w] = {}]
  /\ tx' = [tx EXCEPT ![w] = NoTx]
  /\ phase' = [phase EXCEPT ![w] = "up"]
  /\ skipped' = [skipped EXCEPT ![w] = FALSE]
  /\ looperr' = [looperr EXCEPT ![w] = FALSE]
  /\ jobs' = afterCrash(jobs, tx[w])
  /\ UNCHANGED <<now, autoinc, folders, limit, clientVars, purgeVars, callVars, upload>>

\* SIGINT / SIGTERM: shutdown() calls clearInterval(timer), then wait().
Signal(w) ==
  /\ phase[w] = "up"
  /\ pc[w] \in {"idle", "work"}
  /\ phase' = [phase EXCEPT ![w] = "stopping"]
  /\ UNCHANGED <<now, jobs, autoinc, folders, tx, workerVars, clientVars,
                 skipped, looperr, purgeVars, callVars, upload>>

\* wait(), called by shutdown() and then every 200 ms:
\* if (!running) process.exit(0)
WaitExit(w) ==
  /\ phase[w] = "stopping"
  /\ pc[w] \in {"idle", "work"}
  /\ MayExit(running[w])
  /\ phase' = [phase EXCEPT ![w] = "exited"]
  /\ UNCHANGED <<now, jobs, autoinc, folders, tx, workerVars, clientVars,
                 skipped, looperr, purgeVars, callVars, upload>>

Next ==
  \/ Tick
  \/ \E p \in Priorities, d \in Delays : Enqueue(MaxJobs, Folder, p, d)
  \/ \E w \in Workers : LoopStart(w)
  \/ \E w \in Workers : TxRequeueStale(w)
  \/ \E w \in Workers : TxSelect(w)
  \/ \E w \in Workers : TxMark(w)
  \/ \E w \in Workers : TxCommit(w)
  \/ \E w \in Workers : \E job \in inflight[w] : WorkDone(w, job)
  \/ \E w \in Workers : \E job \in inflight[w] : \E e \in Errors, r \in RandomDraws :
       WorkFail(w, job, e, r)
  \/ \E w \in Workers : LoopEnd(w)
  \/ \E w \in Workers : Crash(w)

Spec == Init /\ [][Next]_vars

\* The same processes, with enqueueJob called with a delaySeconds argument of
\* any sign: the function takes the number as it comes.
NextAnyDelay ==
  \/ Tick
  \/ \E p \in Priorities, d \in AnyDelays : Enqueue(MaxJobs, Folder, p, d)
  \/ \E w \in Workers : LoopStart(w)
  \/ \E w \in Workers : TxRequeueStale(w)
  \/ \E w \in Workers : TxSelect(w)
  \/ \E w \in Workers : TxMark(w)
  \/ \E w \in Workers : TxCommit(w)
  \/ \E w \in Workers : \E job \in inflight[w] : WorkDone(w, job)
  \/ \E w \in Workers : \E job \in inflight[w] : \E e \in Errors, r \in RandomDraws :
       WorkFail(w, job, e, r)
  \/ \E w \in Workers : LoopEnd(w)
  \/ \E w \in Workers : Crash(w)

SpecAnyDelay == Init /\ [][NextAnyDelay]_vars

\* One worker process with its timer and its shutdown handler; jobs are
\* enqueued the way the upload routes do, with priority 0 and delay 0.
LoopWorker == "w1"

NextLoop ==
  \/ Tick
  \/ Enqueue(MaxLoopJobs, Folder, 0, 0)
  \/ LoopStart(LoopWorker)
  \/ LoopSkip(LoopWorker)
  \/ TxRequeueStale(LoopWorker)
  \/ TxSelect(LoopWorker)
  \/ TxMark(LoopWorker)
  \/ TxCommit(LoopWorker)
  \/ \E job \in inflight[LoopWorker] : WorkDone(LoopWorker, job)
  \/ \E job \in inflight[LoopWorker] : \E e \in Errors, r \in RandomDraws :
       WorkFail(LoopWorker, job, e, r)
  \/ LoopEnd(LoopWorker)
  \/ Signal(LoopWorker)
  \/ WaitExit(LoopWorker)

SpecLoop == Init /\ [][NextLoop]_vars

\* A worker process that dies while its jobs are in flight and never reports
\* them, next to a worker process that stays up and keeps polling.
DyingWorker == "w1"
LiveWorker == "w2"

NextRecover ==
  \/ Tick
  \/ Enqueue(MaxRecoverJobs, Folder, 0, 0)
  \/ \E w \in Workers : LoopStart(w)
  \/ \E w \in Workers : TxRequeueStale(w)
  \/ \E w \in Workers : TxSelect(w)
  \/ \E w \in Workers : TxMark(w)
  \/ \E w \in Workers : TxCommit(w)
  \/ \E job \in inflight[LiveWorker] : WorkDone(LiveWorker, job)
  \/ \E job \in inflight[LiveWorker] : \E e \in Errors, r \in RandomDraws :
       WorkFail(LiveWorker, job, e, r)
  \/ LoopEnd(LiveWorker)
  \/ Crash(DyingWorker)

\* Time advances; a transaction of better-sqlite3 is one synchronous call, so
\* once begun it runs to its commit unless the process dies; the live
\* worker's timer keeps firing, its claimJobs call gets the write lock
\* whenever it is free often enough, its processing calls settle and its
\* tick ends.
FairRecover ==
  /\ WF_vars(Tick)
  /\ \A w \in Workers :
       WF_vars(TxSelect(w)) /\ WF_vars(TxMark(w)) /\ WF_vars(TxCommit(w))
  /\ WF_vars(LoopStart(LiveWorker))
  /\ SF_vars(TxRequeueStale(LiveWorker))
  /\ SF_vars(\E job \in inflight[LiveWorker] :
               \/ WorkDone(LiveWorker, job)
               \/ \E e \in Errors, r \in RandomDraws :
                    WorkFail(LiveWorker, job, e, r))
  /\ WF_vars(LoopEnd(LiveWorker))

SpecRecover == Init /\ [][NextRecover]_vars /\ FairRecover

\* The same two worker processes on a queue of several jobs of either
\* priority, up to the return of the claimJobs call by which the live
\* worker finds the stale jobs of the dead one next to fresh ones.
NextReclaim ==
  \/ Tick
  \/ \E p \in Priorities : Enqueue(MaxReclaimJobs, Folder, p, 0)
  \/ \E w \in Workers : LoopStart(w)
  \/ \E w \in Workers : TxRequeueStale(w)
  \/ \E w \in Workers : TxSelect(w)
  \/ \E w \in Workers : TxMark(w)
  \/ \E w \in Workers : TxCommit(w)
  \/ Crash(DyingWorker)

SpecReclaim == Init /\ [][NextReclaim]_vars

\* The clock of the retry runs: MAX_ATTEMPTS failures with their backoff
\* delays and one staleness threshold fit into it.
LateTick ==
  /\ now < MaxRetryTime
  /\ now' = now + 1
  /\ UNCHANGED <<jobs, autoinc, folders, tx, workerVars, clientVars, loopVars,
                 purgeVars, callVars, upload>>

\* Worker processes that never die: every processing call they dispatch
\* settles, possibly after the staleness threshold has passed.
NextRetry ==
  \/ LateTick
  \/ Enqueue(MaxJobs, Folder, 0, 0)
  \/ \E w \in Workers : LoopStart(w)
  \/ \E w \in Workers : TxRequeueStale(w)
  \/ \E w \in Workers : TxSelect(w)
  \/ \E w \in Workers : TxMark(w)
  \/ \E w \in Workers : TxCommit(w)
  \/ \E w \in Workers : \E job \in inflight[w] : WorkDone(w, job)
  \/ \E w \in Workers : \E job \in inflight[w] : \E e \in Errors, r \in RandomDraws :
       WorkFail(w, job, e, r)
  \/ \E w \in Workers : LoopEnd(w)

\* Time advances, the timers keep firing, every claimJobs call gets the
\* write lock and commits, every dispatched processing call settles.
FairRetry ==
  /\ WF_vars(LateTick)
  /\ \A w \in Workers :
       /\ WF_vars(LoopStart(w))
       /\ SF_vars(TxRequeueStale(w))
       /\ WF_vars(TxSelect(w)) /\ WF_vars(TxMark(w)) /\ WF_vars(TxCommit(w))
       /\ SF_vars(\E job \in inflight[w] :
                    \/ WorkDone(w, job)
                    \/ \E e \in Errors, r \in RandomDraws : WorkFail(w, job, e, r))
       /\ WF_vars(LoopEnd(w))

SpecRetry == Init /\ [][NextRetry]_vars /\ FairRetry

\* purgeOldJobs(days), first statement of the transaction:
\* const d = purgeDoneStmt.run({ age }).changes
PurgeDone(days) ==
  /\ ppc = "idle"
  /\ WriteLockFree(tx, Purger)
  /\ page' = purgeAge(days)
  /\ pdone' = purgeChanges(jobs, "done", now, purgeAge(days))
  /\ tx' = [tx EXCEPT ![Purger] =
              [open    |-> TRUE,
               jobs    |-> purgeStmt(jobs, "done", now, purgeAge(days)),
               folders |-> folders]]
  /\ ppc' = "deleting"
  /\ UNCHANGED <<now, jobs, autoinc, folders, workerVars, clientVars,
                 loopVars, presult, callVars, upload>>

\* purgeOldJobs: const f = purgeFailedStmt.run({ age }).changes, COMMIT,
\* return { deletedDone: d, deletedFailed: f }
PurgeFailed ==
  /\ ppc = "deleting"
  /\ jobs' = purgeStmt(tx[Purger].jobs, "failed", now, page)
  /\ presult' = [deletedDone   |-> pdone,
                 deletedFailed |->
                   purgeChanges(tx[Purger].jobs, "failed", now, page)]
  /\ tx' = [tx EXCEPT ![Purger] = NoTx]
  /\ ppc' = "idle"
  /\ UNCHANGED <<now, autoinc, folders, workerVars, clientVars, loopVars,
                 page, pdone, callVars, upload>>

\* One worker process working the queue while the maintenance process
\* purges it.
PurgeWorker == "w1"

NextPurge ==
  \/ Tick
  \/ Enqueue(MaxPurgeJobs, Folder, 0, 0)
  \/ LoopStart(PurgeWorker)
  \/ TxRequeueStale(PurgeWorker)
  \/ TxSelect(PurgeWorker)
  \/ TxMark(PurgeWorker)
  \/ TxCommit(PurgeWorker)
  \/ \E job \in inflight[PurgeWorker] : WorkDone(PurgeWorker, job)
  \/ \E job \in inflight[PurgeWorker] : \E e \in Errors, r \in RandomDraws :
       WorkFail(PurgeWorker, job, e, r)
  \/ LoopEnd(PurgeWorker)
  \/ \E days \in PurgeDays : PurgeDone(days)
  \/ PurgeFailed

SpecPurge == Init /\ [][NextPurge]_vars

\* backoffSeconds(attempts) with the draw r of Math.random()
CallBackoff(attempts, r) ==
  /\ battempts' = attempts
  /\ bdraw' = r
  /\ bseconds' = backoffSeconds(attempts, r)
  /\ UNCHANGED <<now, jobs, autoinc, folders, tx, workerVars, clientVars,
                 loopVars, purgeVars, reply, upload>>

\* The backoff policy alone, called with every attempts value and draw.
NextBackoff ==
  \E attempts \in 0..MaxBackoffAttempts, r \in BackoffDraws :
    CallBackoff(attempts, r)

SpecBackoff == Init /\ [][NextBackoff]_vars

\* One worker process whose processing calls fail in either way: the image
\* is missing, or the transcription call throws.
KindWorker == "w1"

NextKinds ==
  \/ Tick
  \/ Enqueue(MaxKindJobs, Folder, 0, 0)
  \/ LoopStart(KindWorker)
  \/ TxRequeueStale(KindWorker)
  \/ TxSelect(KindWorker)
  \/ TxMark(KindWorker)
  \/ TxCommit(KindWorker)
  \/ \E job \in inflight[KindWorker] : WorkDone(KindWorker, job)
  \/ \E job \in inflight[KindWorker] : \E e \in FailureKinds, r \in RandomDraws :
       WorkFail(KindWorker, job, e, r)
  \/ LoopEnd(KindWorker)

SpecKinds == Init /\ [][NextKinds]_vars

\* claimJobs throws: a statement of the transaction, or its COMMIT, fails
\* (SQLITE_BUSY, I/O error).  The wrapper rolls back, loop()'s catch logs
\* the error, finally: running = false.
TxThrow(w) ==
  /\ pc[w] \in {"claim", "requeued", "selected"}
  /\ jobs' = afterThrow(jobs, tx[w])
  /\ tx' = [tx EXCEPT ![w] = NoTx]
  /\ rows' = [rows EXCEPT ![w] = <<>>]
  /\ claimed' = [claimed EXCEPT ![w] = <<>>]
  /\ pc' = [pc EXCEPT ![w] = "idle"]
  /\ running' = [running EXCEPT ![w] = FALSE]
  /\ looperr' = [looperr EXCEPT ![w] = TRUE]
  /\ UNCHANGED <<now, autoinc, folders, limit, inflight, clientVars, phase,
                 skipped, purgeVars, callVars, upload>>

\* workOne(job): the transcription succeeded and the text file is written,
\* completeJob(id) throws (nothing is written); the throw is inside the try
\* block, so the catch block runs failJob with the store's error message,
\* and this second store call succeeds.
WorkDoneThrows(w, job, err, r) ==
  /\ pc[w] = "work"
  /\ phase[w] # "exited"
  /\ job \in inflight[w]
  /\ WriteLockFree(tx, w)
  /\ jobs' = failJob(jobs, job.id, job.attempts, err, CatchMaxAttempts(err),
                     backoffSeconds(job.attempts, r), now)
  /\ inflight' = [inflight EXCEPT ![w] = Settle(@, job)]
  /\ UNCHANGED <<now, autoinc, folders, tx, limit, running, pc, rows, claimed,
                 clientVars, loopVars, purgeVars, callVars, upload>>

\* workOne(job): failJob throws inside the catch block (after a failed
\* processing, or after a completeJob that threw): workOne's promise is
\* rejected, allSettled absorbs it, no row is written.
WorkReportLost(w, job) ==
  /\ pc[w] = "work"
  /\ phase[w] # "exited"
  /\ job \in inflight[w]
  /\ inflight' = [inflight EXCEPT ![w] = Settle(@, job)]
  /\ UNCHANGED <<now, jobs, autoinc, folders, tx, limit, running, pc, rows,
                 claimed, clientVars, loopVars, purgeVars, callVars, upload>>

\* One worker process whose completeJob and failJob calls can throw.
ReportWorker == "w1"

NextReportError ==
  \/ Tick
  \/ Enqueue(MaxReportJobs, Folder, 0, 0)
  \/ LoopStart(ReportWorker)
  \/ TxRequeueStale(ReportWorker)
  \/ TxSelect(ReportWorker)
  \/ TxMark(ReportWorker)
  \/ TxCommit(ReportWorker)
  \/ \E job \in inflight[ReportWorker] : WorkDone(ReportWorker, job)
  \/ \E job \in inflight[ReportWorker] : \E e \in Errors, r \in RandomDraws :
       WorkFail(ReportWorker, job, e, r)
  \/ \E job \in inflight[ReportWorker] : \E e \in StoreErrors, r \in RandomDraws :
       WorkDoneThrows(ReportWorker, job, e, r)
  \/ \E job \in inflight[ReportWorker] : WorkReportLost(ReportWorker, job)
  \/ LoopEnd(ReportWorker)

SpecReportError == Init /\ [][NextReportError]_vars

\* One worker process on a store whose calls can fail at any statement of
\* claimJobs.
ErrorWorker == "w1"

NextStoreError ==
  \/ Tick
  \/ Enqueue(MaxErrorJobs, Folder, 0, 0)
  \/ LoopStart(ErrorWorker)
  \/ TxRequeueStale(ErrorWorker)
  \/ TxSelect(ErrorWorker)
  \/ TxMark(ErrorWorker)
  \/ TxCommit(ErrorWorker)
  \/ TxThrow(ErrorWorker)
  \/ \E job \in inflight[ErrorWorker] : WorkDone(ErrorWorker, job)
  \/ \E job \in inflight[ErrorWorker] : \E e \in Errors, r \in RandomDraws :
       WorkFail(ErrorWorker, job, e, r)
  \/ LoopEnd(ErrorWorker)

SpecStoreError == Init /\ [][NextStoreError]_vars

\* One worker process draining a longer queue: the order of claimStmt.
OrderWorker == "w1"

NextOrder ==
  \/ Tick
  \/ \E p \in Priorities, d \in Delays : Enqueue(MaxOrderJobs, Folder, p, d)
  \/ LoopStart(OrderWorker)
  \/ TxRequeueStale(OrderWorker)
  \/ TxSelect(OrderWorker)
  \/ TxMark(OrderWorker)
  \/ TxCommit(OrderWorker)
  \/ \E job \in inflight[OrderWorker] : WorkDone(OrderWorker, job)
  \/ \E job \in inflight[OrderWorker] : \E e \in Errors, r \in RandomDraws :
       WorkFail(OrderWorker, job, e, r)
  \/ LoopEnd(OrderWorker)

SpecOrder == Init /\ [][NextOrder]_vars

\* nextSerial, first statement of the transaction: upsertFolder.run(f)
SerialUpsert(c, f) ==
  /\ cpc[c] = "idle"
  /\ Len(issued[f]) + Cardinality({d \in Clients : cpc[d] # "idle" /\ cfolder[d] = f})
       < MaxSerial
  /\ WriteLockFree(tx, c)
  /\ tx' = [tx EXCEPT ![c] =
              [open |-> TRUE, jobs |-> jobs, folders |-> upsertFolder(folders, f)]]
  /\ cpc' = [cpc EXCEPT ![c] = "upserted"]
  /\ cfolder' = [cfolder EXCEPT ![c] = f]
  /\ UNCHANGED <<now, jobs, autoinc, folders, workerVars, issued, loopVars,
                 purgeVars, callVars, upload>>

\* nextSerial: incSerial.run(f)
SerialInc(c) ==
  /\ cpc[c] = "upserted"
  /\ tx' = [tx EXCEPT ![c].folders = incSerial(tx[c].folders, cfolder[c])]
  /\ cpc' = [cpc EXCEPT ![c] = "incremented"]
  /\ UNCHANGED <<now, jobs, autoinc, folders, workerVars, cfolder, issued, loopVars,
                 purgeVars, callVars, upload>>

\* nextSerial: getSerial.get(f), COMMIT, return row.last_serial
SerialReturn(c) ==
  /\ cpc[c] = "incremented"
  /\ folders' = tx[c].folders
  /\ tx' = [tx EXCEPT ![c] = NoTx]
  /\ issued' = [issued EXCEPT ![cfolder[c]] =
                  Append(@, getSerial(tx[c].folders, cfolder[c]))]
  /\ cpc' = [cpc EXCEPT ![c] = "idle"]
  /\ UNCHANGED <<now, jobs, autoinc, workerVars, cfolder, loopVars, purgeVars, callVars, upload>>

\* The calling process dies inside nextSerial and is started again: the
\* transaction is rolled back, the committed folders table stays.
ClientCrash(c) ==
  /\ cpc[c] # "idle"
  /\ tx' = [tx EXCEPT ![c] = NoTx]
  /\ cpc' = [cpc EXCEPT ![c] = "idle"]
  /\ UNCHANGED <<now, jobs, autoinc, folders, workerVars, cfolder, issued, loopVars,
                 purgeVars, callVars, upload>>

NextSerial ==
  \/ \E c \in Clients, f \in Folders : SerialUpsert(c, f)
  \/ \E c \in Clients : SerialInc(c)
  \/ \E c \in Clients : SerialReturn(c)
  \/ \E c \in Clients : ClientCrash(c)

SpecSerial == Init /\ [][NextSerial]_vars

\* getJob(id): SELECT * FROM jobs WHERE id = ?, on the committed table
GetJob(id) ==
  /\ reply' = [op |-> "getJob", result |-> getJob(jobs, id)]
  /\ jobs' = afterSelect(jobs, {id} \cap DOMAIN jobs)
  /\ UNCHANGED <<now, autoinc, folders, tx, workerVars, clientVars, loopVars,
                 purgeVars, battempts, bdraw, bseconds, upload>>

\* listJobsByFolder(folder, limit, offset).  The statement mixes a positional
\* and two named parameters and is bound with one object: the call returns
\* the page, or the binding throws; neither writes.
ListJobsByFolder(folder, lim, offset) ==
  LET result == listJobsByFolder(jobs, folder, lim, offset)
  IN  /\ \/ reply' = [op |-> "listJobsByFolder", result |-> result]
         \/ reply' = [op |-> "listJobsByFolder", threw |-> TRUE]
      /\ jobs' = afterSelect(jobs, {result[k].id : k \in DOMAIN result})
      /\ UNCHANGED <<now, autoinc, folders, tx, workerVars, clientVars, loopVars,
                     purgeVars, battempts, bdraw, bseconds, upload>>

\* jobCounts(folder)
JobCounts(folder) ==
  /\ reply' = [op |-> "jobCounts", result |-> jobCounts(jobs, folder)]
  /\ jobs' = afterSelect(jobs, {i \in DOMAIN jobs : jobs[i].folder = folder})
  /\ UNCHANGED <<now, autoinc, folders, tx, workerVars, clientVars, loopVars,
                 purgeVars, battempts, bdraw, bseconds, upload>>

\* The read-only queries between the steps of one worker process whose
\* transcriptions succeed and one nextSerial caller, within one second of
\* the clock.
ReadWorker == "w1"
ReadClient == "c1"

NextReads ==
  \/ \E f \in Folders : Enqueue(MaxReadJobs, f, 0, 0)
  \/ LoopStart(ReadWorker)
  \/ TxRequeueStale(ReadWorker)
  \/ TxSelect(ReadWorker)
  \/ TxMark(ReadWorker)
  \/ TxCommit(ReadWorker)
  \/ \E job \in inflight[ReadWorker] : WorkDone(ReadWorker, job)
  \/ LoopEnd(ReadWorker)
  \/ SerialUpsert(ReadClient, Folder)
  \/ SerialInc(ReadClient)
  \/ SerialReturn(ReadClient)
  \/ \E id \in 0..MaxReadJobs : GetJob(id)
  \/ \E f \in Folders, l \in PageLimits, o \in Offsets : ListJobsByFolder(f, l, o)
  \/ \E f \in Folders : JobCounts(f)

SpecReads == Init /\ [][NextReads]_vars

\* enqueueJob(folder, image_path, text_path, priority, 0), all columns kept
EnqueueFull(max, maxRows, u) ==
  /\ autoinc < max
  /\ Cardinality(DOMAIN jobs) < maxRows
  /\ WriteLockFree(tx, "ingest")
  /\ autoinc' = nextId(jobs, autoinc)
  /\ jobs' = [i \in DOMAIN jobs \cup {nextId(jobs, autoinc)} |->
               IF i = nextId(jobs, autoinc)
               THEN FullJob(u.folder, u.base, u.priority, now, now)
               ELSE jobs[i]]
  /\ UNCHANGED <<now, folders, tx, workerVars, clientVars, loopVars, purgeVars, callVars, upload>>

\* One worker process that can die and restart (and then recovers its own
\* stale jobs) and the retention sweep purgeOldJobs(0), on rows with all
\* their columns; Math.random() draws 0, and ingestion enqueues while the
\* table holds fewer than MaxColumnRows rows.
ColumnWorker == "w1"

NextColumns ==
  \/ Tick
  \/ \E u \in Uploads : EnqueueFull(MaxColumnJobs, MaxColumnRows, u)
  \/ LoopStart(ColumnWorker)
  \/ TxRequeueStale(ColumnWorker)
  \/ TxSelect(ColumnWorker)
  \/ TxMark(ColumnWorker)
  \/ TxCommit(ColumnWorker)
  \/ \E job \in inflight[ColumnWorker] : WorkDone(ColumnWorker, job)
  \/ \E job \in inflight[ColumnWorker] : \E e \in Errors :
       WorkFail(ColumnWorker, job, e, 0)
  \/ LoopEnd(ColumnWorker)
  \/ Crash(ColumnWorker)
  \/ PurgeDone(<<0, 1>>)
  \/ PurgeFailed

SpecColumns == Init /\ [][NextColumns]_vars

\* ---------------------------------------------------- the upload routes
\* String(n): the decimal digits of n
RECURSIVE Digits(_)
Digits(n) == IF n < 10 THEN <<n>> ELSE Append(Digits(n \div 10), n % 10)

\* s.padStart(width, fill): fill characters in front up to width, never a cut
RECURSIVE padStart(_, _, _)
padStart(s, width, fill) ==
  IF Len(s) >= width THEN s ELSE padStart(<<fill>> \o s, width, fill)

\* `${folderName}_${String(serial).padStart(SERIAL_PAD, "0")}`
baseName(folderName, serial) == <<folderName, padStart(Digits(serial), SERIAL_PAD, 0)>>

\* the request after a file was accepted: the next file of the batch takes
\* the serial of the one before
afterAcceptedKeepsSerial(u) ==
  IF u.left = 1 THEN NoUpload ELSE [u EXCEPT !.left = @ - 1, !.at = "rename"]

\* the request after a file was accepted: the loop goes on with the next
\* file and calls nextSerial again, or the route answers 202
afterAccepted(u) ==
  IF u.left = 1 THEN NoUpload
  ELSE [u EXCEPT !.left = @ - 1, !.at = "serial", !.serial = 0]

\* POST /upload-batch-queue with n files, POST /upload-queue with one:
\* ensureFolder(req.body.folder) returned and there are files
UploadBegin(c, f, n) ==
  /\ upload[c].at = "none"
  /\ cpc[c] = "idle"
  /\ autoinc + n <= MaxUploadJobs
  /\ \A d \in Clients \ {c} : autoinc + n + upload[d].left <= MaxUploadJobs
  /\ upload' = [upload EXCEPT ![c] = [at |-> "serial", folder |-> f, left |-> n, serial |-> 0]]
  /\ UNCHANGED <<now, jobs, autoinc, folders, tx, workerVars, clientVars, loopVars,
                 purgeVars, callVars>>

\* const serial = nextSerial(folderName): the transaction begins
UploadNextSerial(c) ==
  /\ upload[c].at = "serial"
  /\ SerialUpsert(c, upload[c].folder)

\* nextSerial commits and returns; base and the two paths are computed
UploadSerialReturn(c) ==
  /\ upload[c].at = "serial"
  /\ cpc[c] = "incremented"
  /\ folders' = tx[c].folders
  /\ tx' = [tx EXCEPT ![c] = NoTx]
  /\ issued' = [issued EXCEPT ![cfolder[c]] =
                  Append(@, getSerial(tx[c].folders, cfolder[c]))]
  /\ cpc' = [cpc EXCEPT ![c] = "idle"]
  /\ upload' = [upload EXCEPT ![c].serial = getSerial(tx[c].folders, cfolder[c]),
                              ![c].at = "rename"]
  /\ UNCHANGED <<now, jobs, autoinc, workerVars, cfolder, loopVars, purgeVars, callVars>>

\* fs.renameSync(file.path, imageDestPath) returns
UploadRename(c) ==
  /\ upload[c].at = "rename"
  /\ upload' = [upload EXCEPT ![c].at = "enqueue"]
  /\ UNCHANGED <<now, jobs, autoinc, folders, tx, workerVars, clientVars, loopVars,
                 purgeVars, callVars>>

\* enqueueJob(folderName, imageDestPath, textDestPath, 0, 0) returns; the
\* loop goes on or the route answers 202
UploadEnqueue(c) ==
  LET u  == upload[c]
      id == nextId(jobs, autoinc)
  IN  /\ u.at = "enqueue"
      /\ WriteLockFree(tx, c)
      /\ autoinc' = id
      /\ jobs' = [i \in DOMAIN jobs \cup {id} |->
                    IF i = id THEN FullJob(u.folder, baseName(u.folder, u.serial), 0, now, now)
                    ELSE jobs[i]]
      /\ upload' = [upload EXCEPT ![c] = afterAccepted(u)]
      /\ UNCHANGED <<now, folders, tx, workerVars, clientVars, loopVars, purgeVars,
                     callVars>>

\* nextSerial, renameSync or enqueueJob throws, or the process dies: an open
\* transaction is rolled back, the route answers 500 (or nothing), what was
\* committed before stays and the rest of the batch is dropped.
UploadThrow(c) ==
  /\ upload[c].at # "none"
  /\ tx' = [tx EXCEPT ![c] = NoTx]
  /\ cpc' = [cpc EXCEPT ![c] = "idle"]
  /\ upload' = [upload EXCEPT ![c] = NoUpload]
  /\ UNCHANGED <<now, jobs, autoinc, folders, workerVars, cfolder, issued, loopVars,
                 purgeVars, callVars>>

\* Upload requests of one or two files, handled by two server processes
\* on the same store, to two folders.
NextUpload ==
  \/ \E c \in Clients, f \in Folders, n \in BatchSizes : UploadBegin(c, f, n)
  \/ \E c \in Clients : UploadNextSerial(c)
  \/ \E c \in Clients : SerialInc(c)
  \/ \E c \in Clients : UploadSerialReturn(c)
  \/ \E c \in Clients : UploadRename(c)
  \/ \E c \in Clients : UploadEnqueue(c)
  \/ \E c \in Clients : UploadThrow(c)

SpecUpload == Init /\ [][NextUpload]_vars

\* ================================================================ claims

InflightIds(w) == {j.id : j \in inflight[w]}

\* C1: a job is moved from queued to processing by at most one claimJobs
\* call: every job a call returns was, in the committed table right before
\* that call commits, still queued (or a stale processing row the call itself
\* requeued), and is processing afterwards.  A racing caller therefore never
\* gets a job another caller has already committed as claimed.
C1_ClaimedOnce ==
  [][\A w \in Workers :
       (pc[w] = "selected" /\ pc'[w] = "work") =>
         \A r \in inflight'[w] :
           /\ r.id \in DOMAIN jobs
           /\ \/ jobs[r.id].status = "queued"
              \/ /\ jobs[r.id].status = "processing"
                 /\ jobs[r.id].updated_at + STALE_SECS <= now
           /\ jobs'[r.id].status = "processing"]_vars

\* C1 witness: one job exists, one caller holds it, and the caller that
\* raced it in the same second has selected and claimed nothing.
C1_RaceWitness ==
  \E w, v \in Workers :
    /\ w # v
    /\ DOMAIN jobs = {1}
    /\ pc[w] = "work" /\ InflightIds(w) = {1}
    /\ jobs[1].status = "processing" /\ jobs[1].updated_at = now
    /\ pc[v] = "selected" /\ rows[v] = <<>> /\ claimed[v] = <<>>

\* C2: done and failed are terminal: no step changes the status of a job that
\* is done or failed.
C2_TerminalStatuses ==
  [][\A i \in DOMAIN jobs :
       jobs[i].status \in {"done", "failed"} =>
         jobs'[i].status = jobs[i].status]_vars

\* C3: a failJob call that leaves attempts at or above maxAttempts leaves the
\* job failed.
C3_ExhaustedIsFailed ==
  [][\A i \in DOMAIN jobs :
       (jobs'[i].attempts = jobs[i].attempts + 1
          /\ jobs'[i].attempts >= MAX_ATTEMPTS) =>
         jobs'[i].status = "failed"]_vars

\* C4: attempts never exceeds maxAttempts, and a queued or processing job has
\* attempts below maxAttempts.
C4_AttemptsBounded ==
  \A i \in DOMAIN jobs :
    /\ jobs[i].attempts <= MAX_ATTEMPTS
    /\ jobs[i].status \in {"queued", "processing"} =>
         jobs[i].attempts < MAX_ATTEMPTS

\* C5: for a job that was never stale-requeued, each failure below the
\* maxAttempts-th leaves it queued and the maxAttempts-th leaves it failed
\* with attempts = maxAttempts; there is no further failure after that.
C5_FailureRounds ==
  [][\A i \in DOMAIN jobs :
       (~jobs'[i].h_recovered /\ jobs'[i].attempts # jobs[i].attempts) =>
         /\ jobs'[i].attempts = jobs[i].attempts + 1
         /\ jobs'[i].attempts <= MAX_ATTEMPTS
         /\ jobs'[i].attempts < MAX_ATTEMPTS => jobs'[i].status = "queued"
         /\ jobs'[i].attempts = MAX_ATTEMPTS => jobs'[i].status = "failed"]_vars

\* C5 witness: a job never stale-requeued has failed for good after
\* maxAttempts failures.
C5_ThirdFailureWitness ==
  \E i \in DOMAIN jobs :
    /\ ~jobs[i].h_recovered
    /\ jobs[i].status = "failed"
    /\ jobs[i].attempts = MAX_ATTEMPTS

\* C6: the recovery statement of claimJobs turns every processing row whose
\* updated_at is at least the staleness threshold old into a queued row with
\* available_at = now and the same attempts, and appends the recovery note to
\* last_error: after the old text and a newline, or alone when the old text
\* was NULL or empty.
C6_StaleRecovery ==
  [][\A w \in Workers :
       (pc[w] = "claim" /\ pc'[w] = "requeued") =>
         \A i \in DOMAIN jobs :
           (jobs[i].status = "processing"
              /\ jobs[i].updated_at + STALE_SECS <= now) =>
             LET old == jobs[i]
                 new == tx'[w].jobs[i]
             IN  /\ new.status = "queued"
                 /\ new.available_at = now
                 /\ new.attempts = old.attempts
                 /\ new.last_error.null = FALSE
                 /\ new.last_error.text =
                      IF old.last_error.null \/ old.last_error.text = ""
                      THEN "[auto] requeued stale processing job"
                      ELSE old.last_error.text
                             \o "\n[auto] requeued stale processing job"]_vars

\* C6 witness: a claim has just requeued a stale job that carried an earlier
\* error text and one failed attempt.
C6_RecoveredWitness ==
  \E w \in Workers : \E i \in DOMAIN jobs :
    /\ pc[w] = "requeued"
    /\ jobs[i].status = "processing"
    /\ jobs[i].last_error = Text("Image missing on disk")
    /\ tx[w].jobs[i].status = "queued"
    /\ tx[w].jobs[i].attempts = 1
    /\ tx[w].jobs[i].last_error.text =
         "Image missing on disk\n[auto] requeued stale processing job"

\* C7: claimStmt returns the first `limit` eligible jobs in the order priority
\* descending, available_at ascending, id ascending (no eligible job it leaves
\* out precedes one it returns), and every selected row is then marked and
\* returned by the call.
C7_ClaimOrder ==
  [][\A w \in Workers :
       /\ (pc[w] = "requeued" /\ pc'[w] = "selected") =>
            LET J    == tx[w].jobs
                R    == rows'[w]
                elig == {i \in DOMAIN J :
                           J[i].status = "queued" /\ J[i].available_at <= now}
                sel  == {R[k].id : k \in 1..Len(R)}
                Prec(a, b) ==
                  \/ J[a].priority > J[b].priority
                  \/ J[a].priority = J[b].priority
                       /\ J[a].available_at < J[b].available_at
                  \/ J[a].priority = J[b].priority
                       /\ J[a].available_at = J[b].available_at /\ a < b
            IN  /\ sel \subseteq elig
                /\ Cardinality(sel) = Len(R)
                /\ Len(R) = IF Cardinality(elig) < limit
                            THEN Cardinality(elig) ELSE limit
                /\ \A a \in sel, b \in elig \ sel : Prec(a, b)
                /\ \A k, l \in 1..Len(R) : k < l => Prec(R[k].id, R[l].id)
       /\ (pc[w] = "selected" /\ rows[w] # <<>> /\ rows'[w] # rows[w]
              /\ pc'[w] = "selected") =>
            claimed'[w] = Append(claimed[w], Head(rows[w]))
       /\ (pc[w] = "selected" /\ pc'[w] = "work") =>
            inflight'[w] = {claimed[w][k] : k \in 1..Len(claimed[w])}]_vars

\* C7 witness: with limit 1 the call took the priority-5 job and left an
\* older, equally available priority-0 job queued.
C7_PriorityWitness ==
  \E w \in Workers :
    /\ limit = 1
    /\ pc[w] = "work"
    /\ DOMAIN jobs = {1, 2}
    /\ InflightIds(w) = {2}
    /\ jobs[2].priority = 5 /\ jobs[2].status = "processing"
    /\ jobs[1].priority = 0 /\ jobs[1].status = "queued"
    /\ jobs[1].attempts = 0
    /\ jobs[1].available_at <= jobs[2].available_at

\* C8 as stated: no job is in flight in two workers at once.
C8_ExclusiveClaim ==
  \A w, v \in Workers :
    w # v => InflightIds(w) \cap InflightIds(v) = {}

\* C8 amended: two workers that have the same job in flight did not claim
\* the same queued occurrence of it; the job was set back to queued (by
\* stale recovery or by a failure report) between the two claims.
C8_ExclusivePerRequeue ==
  \A w, v \in Workers :
    w # v =>
      \A a \in inflight[w], b \in inflight[v] :
        a.id = b.id => a.h_epoch # b.h_epoch

\* C8 witness: the same job is in flight in two workers after a stale
\* recovery.
C8_DoubleProcessingWitness ==
  \E w, v \in Workers :
    /\ w # v
    /\ InflightIds(w) \cap InflightIds(v) # {}

\* C9: the values nextSerial returns for a folder are 1, 2, 3, ... in call
\* order, without gap or duplicate, whatever the interleaving of the callers
\* and their restarts, and the persisted counter is the last value returned.
C9_SerialsConsecutive ==
  \A f \in Folders :
    /\ \A k \in 1..Len(issued[f]) : issued[f][k] = k
    /\ f \in DOMAIN folders => folders[f] = Len(issued[f])
    /\ f \notin DOMAIN folders => issued[f] = <<>>

\* C9 witness: two calls for a folder have returned and a third is inside its
\* transaction while the other caller waits for the lock.
C9_ConcurrentCallsWitness ==
  \E f \in Folders : \E c \in Clients :
    /\ Len(issued[f]) = 2
    /\ cpc[c] = "incremented" /\ cfolder[c] = f
    /\ tx[c].folders[f] = 3

\* C10: every job row has one of the four statuses, in the committed table
\* and in the working copy of every open transaction.
C10_StatusDomain ==
  /\ \A i \in DOMAIN jobs : jobs[i].status \in Statuses
  /\ \A p \in Procs :
       tx[p].open => \A i \in DOMAIN tx[p].jobs : tx[p].jobs[i].status \in Statuses

\* C10 witness: a claim transaction is half done (a row is processing in its
\* working copy and still queued in the committed table) after a failure has
\* requeued that row.
C10_MidClaimWitness ==
  \E w \in Workers : \E i \in DOMAIN jobs :
    /\ tx[w].open
    /\ tx[w].jobs[i].status = "processing"
    /\ jobs[i].status = "queued"
    /\ jobs[i].attempts > 0

\* C11: a queued job's available_at is not earlier than the time it last
\* became queued, which is the updated_at its INSERT or UPDATE wrote.
C11_AvailableNotBeforeQueued ==
  /\ \A i \in DOMAIN jobs :
       jobs[i].status = "queued" => jobs[i].available_at >= jobs[i].updated_at
  /\ \A p \in Procs :
       tx[p].open =>
         \A i \in DOMAIN tx[p].jobs :
           tx[p].jobs[i].status = "queued" =>
             tx[p].jobs[i].available_at >= tx[p].jobs[i].updated_at

\* C12: a tick starts only when no tick of the process is running and none of
\* its jobs is in flight, and a timer firing that finds a tick running
\* changes nothing: it claims no job and starts no transaction.
C12_TicksDoNotOverlap ==
  [][\A w \in Workers :
       /\ (pc'[w] = "claim" /\ pc[w] # "claim") =>
            (~running[w] /\ pc[w] = "idle" /\ inflight[w] = {})
       /\ (skipped'[w] /\ ~skipped[w]) =>
            /\ running[w] /\ running'[w]
            /\ UNCHANGED <<jobs, tx, pc, rows, claimed, inflight>>]_vars

\* C12 witness: the timer fired during a tick and was skipped although an
\* eligible job was waiting in the queue.
C12_SkippedTickWitness ==
  \E w \in Workers :
    /\ skipped[w] /\ running[w] /\ pc[w] = "work" /\ inflight[w] # {}
    /\ \E i \in DOMAIN jobs :
         jobs[i].status = "queued" /\ jobs[i].available_at <= now

\* C13: a worker process never has more than CONCURRENCY workOne calls in
\* flight.
C13_InflightBounded ==
  \A w \in Workers : Cardinality(inflight[w]) <= limit

\* C13 witness: with CONCURRENCY 1 one job is in flight, no timer firing has
\* been skipped yet, and a second eligible job stays queued.
C13_BackpressureWitness ==
  \E w \in Workers :
    /\ limit = 1 /\ Cardinality(inflight[w]) = 1 /\ ~skipped[w]
    /\ \E i \in DOMAIN jobs :
         jobs[i].status = "queued" /\ jobs[i].available_at <= now

C15_ShutdownStopsTicks ==
  [][\A w \in Workers :
       /\ phase[w] # "up" =>
            /\ ~(pc'[w] = "claim" /\ pc[w] # "claim")
            /\ ~(tx'[w].open /\ ~tx[w].open)
       /\ (phase'[w] = "exited" /\ phase[w] # "exited") =>
            (~running[w] /\ pc[w] = "idle" /\ inflight[w] = {})]_vars

\* C15 witness: the signal arrived during a tick; the process is waiting for
\* the job in flight while an eligible job sits in the queue.
C15_StoppingWitness ==
  \E w \in Workers :
    /\ phase[w] = "stopping" /\ running[w] /\ inflight[w] # {}
    /\ \E i \in DOMAIN jobs :
         jobs[i].status = "queued" /\ jobs[i].available_at <= now

Orphaned(i) ==
  /\ i \in DOMAIN jobs
  /\ jobs[i].status = "processing"
  /\ \A w \in Workers : i \notin InflightIds(w) /\ ~tx[w].open
  /\ jobs[i].updated_at + STALE_SECS <= MaxTime

\* C17: a job orphaned in processing is eventually in flight again, provided
\* a worker keeps calling claimJobs; and a claim of a job whose committed
\* row is in processing is a claim of a later queued occurrence: the job was
\* set back to queued by the claimant's transaction before it was claimed.
C17_StaleJobReclaimed ==
  /\ \A i \in 1..MaxRecoverJobs :
       Orphaned(i) ~> (\E w \in Workers : i \in InflightIds(w))
  /\ [][\A w \in Workers : \A a \in inflight'[w] \ inflight[w] :
          jobs[a.id].status = "processing" =>
            /\ a.h_epoch > jobs[a.id].h_epoch
            /\ jobs[a.id].updated_at + STALE_SECS <= now]_vars

\* C17 witness: the job claimed by the worker that died is in flight in the
\* live worker, claimed again after one stale recovery, attempts untouched.
C17_ReclaimedWitness ==
  /\ pc[DyingWorker] = "idle" /\ inflight[DyingWorker] = {}
  /\ \E a \in inflight[LiveWorker] :
       /\ a.h_epoch = 1 /\ a.attempts = 0
       /\ jobs[a.id].status = "processing" /\ jobs[a.id].h_recovered
       /\ jobs[a.id].updated_at >= STALE_SECS

\* C18: a job is retried at most maxAttempts times in total: no processing
\* call is in flight for a job that had already failed maxAttempts times
\* when it was claimed.
C18_RetriesBounded ==
  \A w \in Workers : \A a \in inflight[w] : a.attempts < MAX_ATTEMPTS

\* C19: every row that disappears from the jobs table was done or failed and
\* had updated_at <= now - age for the age of the purgeOldJobs call that
\* removed it; every other row is unchanged by that call; the call returns
\* the number of done rows and the number of failed rows it removed.
C19_PurgeOnlyOldTerminal ==
  [][LET gone == DOMAIN jobs \ DOMAIN jobs'
     IN  /\ \A i \in gone :
              /\ ppc = "deleting" /\ ppc' = "idle"
              /\ jobs[i].status \in {"done", "failed"}
              /\ jobs[i].updated_at <= now - page
         /\ (ppc = "deleting" /\ ppc' = "idle") =>
              /\ \A i \in DOMAIN jobs \ gone : jobs'[i] = jobs[i]
              /\ presult'.deletedDone =
                   Cardinality({i \in gone : jobs[i].status = "done"})
              /\ presult'.deletedFailed =
                   Cardinality({i \in gone : jobs[i].status = "failed"})]_vars

\* C19 witness: purgeOldJobs(0) after job 1 was marked done removed that row
\* and returned deletedDone = 1, while job 2 waits untouched in the queue.
C19_PurgedDoneWitness ==
  /\ ppc = "idle" /\ page = 0
  /\ presult = [deletedDone |-> 1, deletedFailed |-> 0]
  /\ autoinc = 2 /\ DOMAIN jobs = {2}
  /\ jobs[2].status = "queued"

\* C20: an enqueueJob(priority, delay) call adds exactly one row, under an id
\* no row has, with status queued, attempts 0, no last_error, the given
\* priority and available_at = now + delay, and leaves every existing row
\* unchanged; and the report of one job's outcome changes no other row, so
\* two jobs enqueued with the same arguments evolve independently.
C20_EnqueueAddsOneJob ==
  [][/\ \A p \in Priorities, d \in Delays :
          Enqueue(MaxOrderJobs, Folder, p, d) =>
            LET id == autoinc + 1
            IN  /\ id \notin DOMAIN jobs
                /\ DOMAIN jobs' = DOMAIN jobs \cup {id}
                /\ \A i \in DOMAIN jobs : jobs'[i] = jobs[i]
                /\ jobs'[id].status = "queued"
                /\ jobs'[id].attempts = 0
                /\ jobs'[id].last_error.null
                /\ jobs'[id].priority = p
                /\ jobs'[id].available_at = now + d
                /\ jobs'[id].updated_at = now
     /\ (\E w \in Workers : pc[w] = "work" /\ inflight'[w] # inflight[w]) =>
          Cardinality({i \in DOMAIN jobs : jobs'[i] # jobs[i]}) <= 1]_vars

\* C20 witness: two jobs enqueued at time 0 with the same priority and the
\* same delay 1; at time 1 the first is done, the second has failed once.
C20_DuplicateWitness ==
  /\ DOMAIN jobs = {1, 2} /\ now = 1
  /\ jobs[1].priority = jobs[2].priority
  /\ jobs[1].status = "done" /\ jobs[1].available_at = 1
  /\ jobs[2].status = "queued" /\ jobs[2].attempts = 1

\* C21: a job newly returned by claimJobs has available_at <= now; and a
\* failure that leaves a job queued sets available_at to the time of the
\* failure plus the backoff of the attempts the job had before the failure,
\* that is a value between max(1, floor(raw * (1 - J))) and
\* max(1, floor(raw * (1 + J))) for raw = base * factor^attempts, so the job
\* is not claimed before that delay has elapsed.
C21_RetryWaitsForBackoff ==
  [][/\ \A w \in Workers : \A a \in inflight'[w] \ inflight[w] :
          jobs'[a.id].available_at <= now'
     /\ \A i \in DOMAIN jobs :
          (jobs'[i].attempts = jobs[i].attempts + 1
             /\ jobs'[i].status = "queued") =>
            LET raw  == BACKOFF_BASE * Pow(BACKOFF_FACTOR, jobs[i].attempts)
                wait == jobs'[i].available_at - now
            IN  /\ wait >= Max(1, (raw * (1000 - BACKOFF_JITTER)) \div 1000)
                /\ wait <= Max(1, (raw * (1000 + BACKOFF_JITTER)) \div 1000)]_vars

\* C22: backoffSeconds(attempts) is an integer >= 1, equal to
\* max(1, floor(base * factor^attempts * jitterFactor)) for a jitterFactor in
\* [1 - J, 1 + J]; for a fixed draw it is non-decreasing in attempts.
C22_BackoffValue ==
  /\ [](LET raw == BACKOFF_BASE * Pow(BACKOFF_FACTOR, battempts)
            jitterFactor == 1000000 + (2 * bdraw - 1000) * BACKOFF_JITTER
            product == (raw * jitterFactor) \div 1000000
        IN  /\ bseconds \in Nat /\ bseconds >= 1
            /\ jitterFactor >= (1000 - BACKOFF_JITTER) * 1000
            /\ jitterFactor <= (1000 + BACKOFF_JITTER) * 1000
            /\ bseconds = IF product > 1 THEN product ELSE 1)
  /\ [][(bdraw' = bdraw /\ battempts' >= battempts) =>
          bseconds' >= bseconds]_vars

\* C22 witness: a call where the floor of one second applies: the product
\* 1 * 2^0 * 0.8004 rounds down to 0.
C22_FloorWitness ==
  battempts = 0 /\ bdraw = 1 /\ bseconds = 1

\* C23: a failure changes the job record in the same way whether the image
\* was missing or the transcription threw: attempts goes up by one, and the
\* job is failed when that reaches maxAttempts, else queued again with a
\* backoff delay of at least one second; only last_error tells the two apart.
C23_MissingImageIsOrdinaryFailure ==
  [][\A i \in DOMAIN jobs : \A kind \in FailureKinds :
       (jobs'[i] # jobs[i] /\ jobs'[i].status \in {"queued", "failed"}
          /\ jobs'[i].last_error = [null |-> FALSE, text |-> kind]) =>
         /\ jobs[i].status = "processing"
         /\ jobs'[i].attempts = jobs[i].attempts + 1
         /\ jobs'[i].priority = jobs[i].priority
         /\ jobs'[i].updated_at = now
         /\ IF jobs[i].attempts + 1 >= MAX_ATTEMPTS
            THEN jobs'[i].status = "failed" /\ jobs'[i].available_at = now
            ELSE jobs'[i].status = "queued" /\ jobs'[i].available_at > now]_vars

\* C23 witness: job 1 was found without its image, job 2 had its
\* transcription throw, in the same tick; both are queued for a retry with
\* one attempt counted.
C23_BothKindsWitness ==
  /\ DOMAIN jobs = {1, 2}
  /\ jobs[1].last_error = [null |-> FALSE, text |-> "Image missing on disk"]
  /\ jobs[2].last_error = [null |-> FALSE, text |-> "transcription failed"]
  /\ \A i \in {1, 2} :
       /\ jobs[i].status = "queued" /\ jobs[i].attempts = 1
       /\ jobs[i].updated_at = 0 /\ jobs[i].available_at = 1

\* C24: a tick whose claimJobs call throws dispatches no job and leaves the
\* jobs table as it was, with no transaction left open; and on every exit
\* path the tick ends with running = false: running is true exactly while a
\* tick is in progress, so the next timer firing can start a tick.
C24_ClaimErrorEndsTick ==
  /\ [][\A w \in Workers :
          (looperr'[w] /\ ~looperr[w]) =>
            /\ running[w] /\ ~running'[w]
            /\ jobs' = jobs
            /\ inflight'[w] = {} /\ inflight[w] = {}
            /\ ~tx'[w].open]_vars
  /\ [](\A w \in Workers :
          /\ running[w] <=> pc[w] # "idle"
          /\ ~running[w] => (inflight[w] = {} /\ ~tx[w].open))

\* C24 witness: claimJobs threw after it had selected an eligible job; the
\* job is still queued and unchanged, the worker is idle with running false.
C24_ErrorWitness ==
  \E w \in Workers :
    /\ looperr[w] /\ ~running[w] /\ pc[w] = "idle"
    /\ \E i \in DOMAIN jobs :
         /\ jobs[i].status = "queued" /\ jobs[i].attempts = 0
         /\ jobs[i].available_at < now /\ jobs[i].updated_at < now

\* C25: getJob, listJobsByFolder and jobCounts change nothing, whatever their
\* arguments: the jobs table, the id counter, the folder counters and every
\* open transaction are the same after the call as before it.
C25_ReadsChangeNothing ==
  [][(\/ \E id \in 0..MaxReadJobs : GetJob(id)
      \/ \E f \in Folders, l \in PageLimits, o \in Offsets :
           ListJobsByFolder(f, l, o)
      \/ \E f \in Folders : JobCounts(f)) =>
       /\ jobs' = jobs
       /\ autoinc' = autoinc
       /\ folders' = folders
       /\ tx' = tx]_vars

\* C25 witness: jobCounts has reported one processing job of a folder whose
\* serial counter is set, and the job is still there, still processing.
C25_CountedWitness ==
  /\ reply.op = "jobCounts"
  /\ reply.result = {[status |-> "processing", cnt |-> 1]}
  /\ \E i \in DOMAIN jobs : jobs[i].status = "processing" /\ jobs[i].folder = Folder
  /\ Folder \in DOMAIN folders /\ folders[Folder] = 1

\* C26: every status change of a job is queued->processing (claim),
\* processing->done (completeJob), processing->queued (failJob retry, stale
\* recovery) or processing->failed (failJob final); in particular no job
\* goes from queued straight to done or to failed.
C26_OnlyDefinedTransitions ==
  [][\A i \in DOMAIN jobs \cap DOMAIN jobs' :
       jobs'[i].status # jobs[i].status =>
         <<jobs[i].status, jobs'[i].status>> \in
           {<<"queued", "processing">>, <<"processing", "done">>,
            <<"processing", "queued">>, <<"processing", "failed">>}]_vars

\* C27: claimJobs returns exactly the jobs the call itself moved to
\* processing.  Each UPDATE of the loop either hits a queued row, which is
\* then processing with updated_at = now and is pushed, or hits nothing,
\* changes nothing and pushes nothing.  At the return, the returned ids are
\* the rows the commit turns into processing, there are at most limit of
\* them, each is processing with an updated_at not older than before, and
\* every other processing row is untouched.
C27_ReturnsWhatItClaimed ==
  [][\A w \in Workers :
       /\ TxMark(w) =>
            LET r == Head(rows[w])
            IN  IF r.id \in DOMAIN tx[w].jobs /\ tx[w].jobs[r.id].status = "queued"
                THEN /\ claimed'[w] = Append(claimed[w], r)
                     /\ tx'[w].jobs[r.id].status = "processing"
                     /\ tx'[w].jobs[r.id].updated_at = now
                     /\ \A i \in DOMAIN tx[w].jobs \ {r.id} :
                          tx'[w].jobs[i] = tx[w].jobs[i]
                ELSE /\ claimed'[w] = claimed[w]
                     /\ tx'[w].jobs = tx[w].jobs
       /\ TxCommit(w) =>
            LET ret   == {a.id : a \in inflight'[w] \ inflight[w]}
                moved == {i \in DOMAIN jobs :
                            /\ jobs'[i].status = "processing"
                            /\ \/ jobs[i].status = "queued"
                               \/ jobs'[i].h_epoch > jobs[i].h_epoch}
            IN  /\ DOMAIN jobs' = DOMAIN jobs
                /\ ret = moved
                /\ Cardinality(ret) <= limit
                /\ \A i \in ret :
                     /\ jobs'[i].updated_at >= jobs[i].updated_at
                     /\ jobs'[i].updated_at <= now
                     /\ jobs'[i].updated_at >= jobs[i].available_at
                /\ \A i \in DOMAIN jobs \ ret :
                     jobs'[i].status = "processing" => jobs'[i] = jobs[i]]_vars

\* C27 witness: a job that became available at time 1 was returned to one
\* worker at time 1, with updated_at = 1; the other worker's call in the
\* same second has returned nothing and its tick is over.
C27_ReturnedWitness ==
  \E w, v \in Workers :
    /\ w # v /\ now = 1
    /\ InflightIds(w) = {1} /\ pc[w] = "work"
    /\ jobs[1].status = "processing"
    /\ jobs[1].available_at = 1 /\ jobs[1].updated_at = 1
    /\ inflight[v] = {} /\ pc[v] = "idle" /\ skipped[v] = FALSE

\* C28: completeJob on a processing job sets status done and last_error
\* null and leaves its attempts, priority and available_at and every other
\* job unchanged; failJob adds exactly 1 to the job's attempts and changes
\* no other job; no other step (claim, stale recovery, enqueue) changes the
\* attempts of any job, so attempts never decreases and counts the failJob
\* calls applied to the job.
C28_AttemptsCountFailures ==
  [][/\ \A w \in Workers : \A job \in inflight[w] :
          (WorkDone(w, job) /\ jobs[job.id].status = "processing") =>
            /\ jobs'[job.id].status = "done"
            /\ jobs'[job.id].last_error.null
            /\ jobs'[job.id].attempts = jobs[job.id].attempts
            /\ jobs'[job.id].priority = jobs[job.id].priority
            /\ jobs'[job.id].available_at = jobs[job.id].available_at
            /\ jobs'[job.id].folder = jobs[job.id].folder
            /\ \A i \in DOMAIN jobs \ {job.id} : jobs'[i] = jobs[i]
     /\ \A w \in Workers : \A job \in inflight[w] :
          (\E e \in Errors, r \in RandomDraws : WorkFail(w, job, e, r)) =>
            /\ jobs'[job.id].attempts = jobs[job.id].attempts + 1
            /\ \A i \in DOMAIN jobs \ {job.id} : jobs'[i] = jobs[i]
     /\ \A i \in DOMAIN jobs :
          jobs'[i].attempts # jobs[i].attempts =>
            /\ jobs'[i].attempts > jobs[i].attempts
            /\ \E w \in Workers : \E job \in inflight[w] :
                 /\ job.id = i
                 /\ \E e \in Errors, r \in RandomDraws : WorkFail(w, job, e, r)]_vars

\* C28 witness: a job that failed once, was claimed again, went stale, was
\* recovered and then completed: attempts is still 1, the error is cleared.
C28_RecoveredDoneWitness ==
  \E i \in DOMAIN jobs :
    /\ jobs[i].status = "done" /\ jobs[i].last_error.null
    /\ jobs[i].attempts = 1 /\ jobs[i].h_recovered
    /\ jobs[i].available_at = jobs[i].updated_at /\ jobs[i].updated_at = now

\* b comes before a in claimStmt's order, by the committed rows J
ClaimedBefore(J, b, a) ==
  \/ J[b].priority > J[a].priority
  \/ J[b].priority = J[a].priority /\ J[b].available_at < J[a].available_at
  \/ J[b].priority = J[a].priority /\ J[b].available_at = J[a].available_at /\ b < a

\* C29: a stale job requeued by step 1 of a claimJobs call is a candidate of
\* step 2 of the same call.  Step 1 leaves it queued with available_at = now
\* and its attempts; at the return, a job this call has recovered is either
\* returned, processing, with the attempts it had before the call, or it is
\* queued and the call has returned a full set of limit jobs, each of them
\* before it in claim order.
C29_RecoveredIsClaimedAtOnce ==
  [][\A w \in Workers :
       /\ TxRequeueStale(w) =>
            \A i \in DOMAIN jobs :
              (jobs[i].status = "processing" /\ jobs[i].updated_at <= now - STALE_SECS) =>
                /\ tx'[w].jobs[i].status = "queued"
                /\ tx'[w].jobs[i].available_at = now
                /\ tx'[w].jobs[i].attempts = jobs[i].attempts
       /\ TxCommit(w) =>
            LET ret == {a.id : a \in inflight'[w] \ inflight[w]}
            IN  \A i \in DOMAIN jobs :
                  (jobs[i].status = "processing" /\ jobs'[i].h_epoch > jobs[i].h_epoch) =>
                    IF i \in ret
                    THEN /\ jobs'[i].status = "processing"
                         /\ \E a \in inflight'[w] :
                              a.id = i /\ a.attempts = jobs[i].attempts
                         /\ jobs'[i].attempts = jobs[i].attempts
                    ELSE /\ jobs'[i].status = "queued"
                         /\ Cardinality(ret) = limit
                         /\ \A k \in ret : ClaimedBefore(jobs', k, i)]_vars

\* C29 witness: two jobs of the dead worker went stale; the live worker's
\* call, with room for one, has recovered both and returned the one of
\* higher priority: it is processing, the other is queued.
C29_RecoveredPairWitness ==
  /\ limit = 1 /\ DOMAIN jobs = {1, 2}
  /\ InflightIds(LiveWorker) = {2} /\ inflight[DyingWorker] = {}
  /\ jobs[2].status = "processing" /\ jobs[2].h_recovered /\ jobs[2].priority = 5
  /\ jobs[1].status = "queued" /\ jobs[1].h_recovered /\ jobs[1].priority = 0
  /\ jobs[1].available_at = now /\ jobs[1].h_epoch = 1 /\ jobs[2].h_epoch = 1

\* C30: the recovery step of claimJobs leaves every job unchanged that is not
\* in processing or whose updated_at is more recent than now - STALE_SECS;
\* and the updated_at of a job that stays in processing is not refreshed by
\* any step but a later claim of it, so the age the recovery tests is the
\* time since the claim.
C30_RecoveryOnlyStale ==
  [][/\ \A w \in Workers :
          TxRequeueStale(w) =>
            /\ DOMAIN tx'[w].jobs = DOMAIN jobs
            /\ \A i \in DOMAIN jobs :
                 (jobs[i].status # "processing" \/ jobs[i].updated_at > now - STALE_SECS) =>
                   tx'[w].jobs[i] = jobs[i]
     /\ \A i \in DOMAIN jobs \cap DOMAIN jobs' :
          (/\ jobs[i].status = "processing" /\ jobs'[i].status = "processing"
           /\ jobs'[i].updated_at # jobs[i].updated_at) =>
            /\ jobs[i].updated_at <= now - STALE_SECS
            /\ jobs'[i].h_epoch > jobs[i].h_epoch
            /\ \E w \in Workers : i \in InflightIds(w)' \ InflightIds(w)]_vars

\* C30 witness: a worker still has the job in flight that it claimed
\* STALE_SECS ago; another worker's call has found it stale all the same,
\* requeued it and claimed it.
C30_StaleWhileRunningWitness ==
  \E w, v \in Workers :
    /\ w # v /\ now = STALE_SECS
    /\ pc[w] = "work" /\ pc[v] = "work"
    /\ \E a \in inflight[w], b \in inflight[v] :
         /\ a.id = b.id /\ a.h_epoch = 0 /\ b.h_epoch = 1
         /\ jobs[a.id].status = "processing"
         /\ jobs[a.id].updated_at = now

\* C31: a tick whose claimJobs call returns the empty set is a no-op: the
\* commit of that call changes no job record, nothing is dispatched, and
\* the tick ends (running = false).
C31_EmptyClaimIsNoOp ==
  [][\A w \in Workers :
       (TxCommit(w) /\ claimed[w] = <<>>) =>
         /\ jobs' = jobs
         /\ inflight'[w] = inflight[w]
         /\ inflight'[w] = {}
         /\ ~running'[w]
         /\ ~tx'[w].open]_vars

\* C31 witness: a claimJobs call has found neither a stale nor an eligible
\* job, although the table holds a job another worker is processing since
\* less than STALE_SECS; its working copy is the table as committed.
C31_NothingToClaimWitness ==
  \E w, v \in Workers :
    /\ w # v /\ pc[w] = "selected" /\ rows[w] = <<>> /\ claimed[w] = <<>>
    /\ tx[w].open /\ tx[w].jobs = jobs
    /\ pc[v] = "work" /\ InflightIds(v) = {1}
    /\ jobs[1].status = "processing" /\ jobs[1].attempts = 1
    /\ jobs[1].updated_at = now - 1

\* C32: a job is recorded as a failure only if its processing failed, and a
\* job whose processing succeeded is done afterwards, also when the store
\* call that records the outcome throws: every step that adds to a job's
\* attempts is the report of a failed processing of that job, and every
\* step that settles a succeeded processing leaves the job done with its
\* attempts.
C32_OutcomeRecordedAsItWas ==
  [][/\ \A i \in DOMAIN jobs :
          jobs'[i].attempts # jobs[i].attempts =>
            \E w \in Workers : \E job \in inflight[w] :
              /\ job.id = i
              /\ \E e \in Errors, r \in RandomDraws : WorkFail(w, job, e, r)
     /\ \A w \in Workers : \A job \in inflight[w] :
          (\/ WorkDone(w, job)
           \/ \E e \in StoreErrors, r \in RandomDraws : WorkDoneThrows(w, job, e, r)) =>
            /\ jobs'[job.id].status = "done"
            /\ jobs'[job.id].attempts = jobs[job.id].attempts]_vars

\* C33: the id, folder, image_path, text_path, priority and created_at of a
\* job never change while its row exists; a new row gets an id larger than
\* every id used before it, also the ids of rows purgeOldJobs has removed,
\* so ids increase with the time of the enqueue and are never reused.
C33_IdentityColumnsImmutable ==
  /\ [](\A i \in DOMAIN jobs : i >= 1 /\ i <= autoinc)
  /\ [](\A i, k \in DOMAIN jobs :
          i < k => jobs[i].created_at <= jobs[k].created_at)
  /\ [][/\ autoinc' >= autoinc
        /\ \A i \in DOMAIN jobs' \ DOMAIN jobs :
             /\ i > autoinc
             /\ \A k \in DOMAIN jobs : k < i
             /\ jobs'[i].created_at = now
        /\ \A i \in DOMAIN jobs \cap DOMAIN jobs' :
             /\ jobs'[i].folder = jobs[i].folder
             /\ jobs'[i].image_path = jobs[i].image_path
             /\ jobs'[i].text_path = jobs[i].text_path
             /\ jobs'[i].priority = jobs[i].priority
             /\ jobs'[i].created_at = jobs[i].created_at]_vars

\* C33 witness: the first job was done and has been purged, the table was
\* empty; the job enqueued after the purge has id 2, and it is recovered
\* from a crash of its worker with its columns as enqueued.
C33_AfterPurgeWitness ==
  /\ DOMAIN jobs = {2} /\ autoinc = 2
  /\ jobs[2].h_recovered /\ jobs[2].status = "queued"
  /\ jobs[2].folder = "Y" /\ jobs[2].image_path = <<2, "img">>
  /\ jobs[2].text_path = <<2, "txt">> /\ jobs[2].priority = 5
  /\ jobs[2].created_at < jobs[2].updated_at

\* C34 as stated: a worker crash loses no job.  The crash step leaves the
\* jobs table as it was committed, whatever the worker was doing; every job
\* the worker had in flight is still there, in processing, with the attempts
\* it was claimed with; rows leave the table only in the commit of
\* purgeOldJobs; and every row has one of the four statuses.
C34_CrashLosesNoJob ==
  /\ [](\A i \in DOMAIN jobs : jobs[i].status \in Statuses)
  /\ [][/\ \A w \in Workers :
             Crash(w) =>
               /\ jobs' = jobs
               /\ \A a \in inflight[w] :
                    /\ a.id \in DOMAIN jobs'
                    /\ jobs'[a.id].status = "processing"
                    /\ jobs'[a.id].attempts = a.attempts
        /\ DOMAIN jobs \ DOMAIN jobs' # {} => (ppc = "deleting" /\ ppc' = "idle")]_vars

\* C34 amended: the crash step changes no row, so every job is in the table
\* afterwards exactly as it was committed before; a job the crashed worker
\* had in flight is still in the table, and if it is in processing under
\* that worker's claim (not set back to queued since, no outcome written to
\* it by another worker) its attempts are the ones it was claimed with; no
\* other step than the commit of purgeOldJobs removes a row, and every row
\* has one of the four statuses.
C34_CrashLosesNoJobUnlessTakenOver ==
  /\ [](\A i \in DOMAIN jobs : jobs[i].status \in Statuses)
  /\ [][/\ \A w \in Workers :
             Crash(w) =>
               /\ jobs' = jobs
               /\ \A a \in inflight[w] :
                    /\ a.id \in DOMAIN jobs'
                    /\ (jobs'[a.id].h_epoch = a.h_epoch /\ jobs'[a.id].status = "processing")
                         => jobs'[a.id].attempts = a.attempts
        /\ DOMAIN jobs \ DOMAIN jobs' # {} => (ppc = "deleting" /\ ppc' = "idle")]_vars

\* C34 witness: a worker died with a job in flight that had failed once
\* before: the job is in the table, in processing, attempts 1, and no
\* worker has it in flight or holds a transaction.
C34_OrphanWitness ==
  \E i \in DOMAIN jobs :
    /\ jobs[i].status = "processing" /\ jobs[i].attempts = 1
    /\ \A w \in Workers :
         i \notin InflightIds(w) /\ ~tx[w].open /\ pc[w] = "idle" /\ ~running[w]
\* the rows of a folder in the committed jobs table
JobsOfFolder(f) == {i \in DOMAIN jobs : jobs[i].folder = f}

\* C35: folder counters are independent and start at 1.  Every step of a
\* nextSerial(f) call leaves the jobs table and the counter row of every
\* other folder as they were, in the committed tables and in the call's
\* transaction; and the call that commits the first counter row of f
\* returns 1 and leaves the counter at 1.
SameCounter(F, G, g) ==
  /\ g \in DOMAIN F <=> g \in DOMAIN G
  /\ g \in DOMAIN F => F[g] = G[g]

C35_FolderCountersIndependent ==
  [][\A c \in Clients :
       (UploadNextSerial(c) \/ SerialInc(c) \/ UploadSerialReturn(c)) =>
         /\ jobs' = jobs
         /\ tx'[c].open => tx'[c].jobs = jobs
         /\ \A g \in Folders \ {cfolder'[c]} :
              /\ SameCounter(folders', folders, g)
              /\ tx'[c].open => SameCounter(tx'[c].folders, folders, g)
         /\ (UploadSerialReturn(c) /\ cfolder[c] \notin DOMAIN folders) =>
              /\ cfolder[c] \in DOMAIN folders'
              /\ folders'[cfolder[c]] = 1
              /\ issued'[cfolder[c]] = <<1>>
              /\ upload'[c].serial = 1]_vars

\* C35 witness: one folder got its first serial, 1, after the other had
\* reached 2; jobs are in the table; a call for the other folder is inside
\* its transaction with the counter at 3 and the first folder's at 1.
C35_TwoFoldersWitness ==
  \E f, g \in Folders : \E c \in Clients :
    /\ f # g
    /\ f \in DOMAIN folders /\ g \in DOMAIN folders
    /\ folders[f] = 2 /\ folders[g] = 1 /\ issued[g] = <<1>>
    /\ JobsOfFolder(f) # {} /\ JobsOfFolder(g) # {}
    /\ cpc[c] = "incremented" /\ cfolder[c] = f
    /\ tx[c].folders[f] = 3 /\ tx[c].folders[g] = 1

\* C36: ingestion gives every job its own serial.  For every folder the
\* jobs enqueued by the upload routes are at most as many as the folder's
\* persisted last_serial, no two jobs of a folder have the same image_path
\* or the same text_path, every job carries the base name of a serial that
\* nextSerial returned for its folder, and a step that enqueues adds exactly
\* one row; also when a request aborts part-way and when two requests to
\* the same folder interleave.
C36_OneSerialPerJob ==
  /\ [](\A f \in Folders :
          /\ Cardinality(JobsOfFolder(f)) <= (IF f \in DOMAIN folders THEN folders[f] ELSE 0)
          /\ \A i, k \in JobsOfFolder(f) :
               i # k => /\ jobs[i].image_path # jobs[k].image_path
                        /\ jobs[i].text_path # jobs[k].text_path
          /\ \A i \in JobsOfFolder(f) :
               \E n \in 1..Len(issued[f]) :
                 /\ jobs[i].image_path = <<baseName(f, issued[f][n]), "img">>
                 /\ jobs[i].text_path = <<baseName(f, issued[f][n]), "txt">>)
  /\ [][jobs' # jobs =>
          \E c \in Clients :
            /\ upload[c].at = "enqueue" /\ upload'[c].at # "enqueue"
            /\ Cardinality(DOMAIN jobs') = Cardinality(DOMAIN jobs) + 1
            /\ \A i \in DOMAIN jobs : i \in DOMAIN jobs' /\ jobs'[i] = jobs[i]]_vars

\* C36 witness: two requests to the same folder interleaved and one
\* aborted: the request that took serial 1 enqueued its job after the one
\* that took serial 3, and serial 2 went to a file that was never enqueued.
C36_InterleavedAbortWitness ==
  \E f \in Folders : \E i, k \in JobsOfFolder(f) :
    /\ i < k
    /\ jobs[i].image_path = <<baseName(f, 3), "img">>
    /\ jobs[k].image_path = <<baseName(f, 1), "img">>
    /\ Cardinality(JobsOfFolder(f)) = 2
    /\ folders[f] = 3
    /\ \A c \in Clients : upload[c].at = "none"
====
